---- MODULE Spec2Model ----
(***************************************************************************)
(* Model of the Milvus load-testing tool (main.go): the ramp-up function   *)
(* calculateDynamicLoad, and the orchestrator main() with its two pools of *)
(* worker goroutines (insertion and search).                               *)
(***************************************************************************)
EXTENDS Integers, Sequences, FiniteSets, TLC

(***************************************************************************)
(* IEEE-754 binary64 arithmetic, as far as calculateDynamicLoad uses it.   *)
(* A positive float64 is [sig, exp]: sig is the 53-bit significand, most   *)
(* significant bit first, and the value is sig * 2^exp.  Zero has the      *)
(* empty significand.  Every operation rounds to nearest, ties to even.    *)
(***************************************************************************)
MantissaBits == 53

RECURSIVE Pow2(_)
Pow2(n) == IF n <= 0 THEN 1 ELSE 2 * Pow2(n - 1)

\* 2^n modulo t, by repeated squaring.
SquareMod(h, odd, t) == (((h * h) % t) * (IF odd THEN 2 ELSE 1)) % t

RECURSIVE Pow2Mod(_, _)
Pow2Mod(n, t) ==
    IF n = 0 THEN 1 % t ELSE SquareMod(Pow2Mod(n \div 2, t), n % 2 = 1, t)

\* The w binary digits of v, most significant first.
BitsOf(v, w) == [j \in 1..w |-> (v \div Pow2(w - j)) % 2]

RECURSIVE NatBits(_)
NatBits(n) ==
    IF n = 0 THEN << >> ELSE Append(NatBits(n \div 2), n % 2)

\* The number written by bits[lo..hi].
RECURSIVE ChunkVal(_, _, _)
ChunkVal(bits, lo, hi) ==
    IF hi < lo THEN 0 ELSE 2 * ChunkVal(bits, lo, hi - 1) + bits[hi]

Zeros(n) == [i \in 1..n |-> 0]

\* bits + 1; one digit longer when bits is all ones.
IncBits(bits) ==
    LET zs == {i \in 1..Len(bits) : bits[i] = 0} IN
    IF zs = {} THEN <<1>> \o Zeros(Len(bits))
    ELSE LET p == CHOOSE x \in zs : \A y \in zs : y <= x IN
         [i \in 1..Len(bits) |-> IF i < p THEN bits[i] ELSE IF i = p THEN 1 ELSE 0]

F64Zero == [sig |-> << >>, exp |-> 0]

F64One == [sig |-> <<1>> \o Zeros(MantissaBits - 1), exp |-> 1 - MantissaBits]

\* Round the exact value bits * 2^exp (plus something below the last bit when
\* sticky) to a float64.
F64Round(bits, exp, sticky) ==
    LET L == Len(bits) IN
    IF L = 0 THEN F64Zero
    ELSE IF L <= MantissaBits
    THEN [sig |-> bits \o Zeros(MantissaBits - L), exp |-> exp - (MantissaBits - L)]
    ELSE LET keep  == SubSeq(bits, 1, MantissaBits)
             guard == bits[MantissaBits + 1]
             rest  == sticky \/ \E i \in (MantissaBits + 2)..L : bits[i] = 1
             up    == guard = 1 /\ (rest \/ keep[MantissaBits] = 1)
             sum   == IF up THEN IncBits(keep) ELSE keep
         IN  IF Len(sum) > MantissaBits
             THEN [sig |-> SubSeq(sum, 1, MantissaBits), exp |-> exp + (L - MantissaBits) + 1]
             ELSE [sig |-> sum, exp |-> exp + (L - MantissaBits)]

\* Long division of a by b, 0 <= a < b: the i-th binary digit after the
\* point, and the remainder left after i digits.
QuoRem(a, b, i) == (a * Pow2Mod(i, b)) % b

QuoBit(a, b, i) == IF 2 * QuoRem(a, b, i - 1) >= b THEN 1 ELSE 0

\* float64(a) / float64(b) for integers 0 <= a < b < 2^15: the quotient's
\* first 54 significant digits, the first of them at place z, rounded.
F64QuoFrom(a, b, z) ==
    F64Round([j \in 1..(MantissaBits + 1) |-> QuoBit(a, b, z + j - 1)],
             0 - (z + MantissaBits),
             QuoRem(a, b, z + MantissaBits) # 0)

F64Quo(a, b) ==
    IF a = 0 THEN F64Zero
    ELSE F64QuoFrom(a, b, CHOOSE i \in 1..16 :
                              a * Pow2(i) >= b /\ a * Pow2(i - 1) < b)

\* The digits of k times the number written by bits[1..hi], plus carry;
\* thirteen digits at a time from the right.
RECURSIVE MulBits(_, _, _, _)
MulBits(bits, k, hi, carry) ==
    IF hi = 0 THEN NatBits(carry)
    ELSE LET lo == IF hi > 13 THEN hi - 12 ELSE 1
             w  == hi - lo + 1
             v  == ChunkVal(bits, lo, hi) * k + carry
         IN  MulBits(bits, k, lo - 1, v \div Pow2(w)) \o BitsOf(v % Pow2(w), w)

\* float64(k) * f for an integer k >= 0.
F64MulNat(k, f) ==
    IF k = 0 \/ f.sig = << >> THEN F64Zero
    ELSE F64Round(MulBits(f.sig, k, Len(f.sig), 0), f.exp, FALSE)

\* int(f) for 0 <= f < 2^31: the integer part.
F64Trunc(f) ==
    IF f.sig = << >> \/ 0 - f.exp >= Len(f.sig) THEN 0
    ELSE ChunkVal(f.sig, 1, Len(f.sig) + f.exp)

\* f > 1.0
F64GtOne(f) ==
    \/ F64Trunc(f) > 1
    \/ /\ F64Trunc(f) = 1
       /\ \E i \in (Len(f.sig) + f.exp + 1)..Len(f.sig) : f.sig[i] = 1

\* int(float64(k) * f) for an integer k of either sign: Go's conversion
\* truncates toward zero.
IntOfProduct(k, f) ==
    IF k >= 0 THEN F64Trunc(F64MulNat(k, f))
    ELSE 0 - F64Trunc(F64MulNat(0 - k, f))

\* max with its comparison the wrong way round.
max_Flipped(a, b) == IF a < b THEN a ELSE b

max(a, b) == IF a > b THEN a ELSE b

\* progress > 1.0 is cut to 1.0 (lines 33-35).
ClampProgress(quo) == IF F64GtOne(quo) THEN F64One ELSE quo

\* LinearRamp without the start values: the ramp begins at nothing.
LinearRamp_FromZero(progress, maxWorkers, maxBatchSize, startWorkers, startBatchSize) ==
    << IntOfProduct(maxWorkers, progress),
       IntOfProduct(maxBatchSize, progress) >>

\* Lines 37-44: the start values and the interpolation.
LinearRamp(progress, maxWorkers, maxBatchSize, startWorkers, startBatchSize) ==
    << startWorkers + IntOfProduct(maxWorkers - startWorkers, progress),
       startBatchSize + IntOfProduct(maxBatchSize - startBatchSize, progress) >>

\* calculateDynamicLoad returning its two maxima in the wrong order once the
\* duration has passed.
calculateDynamicLoad_Swapped(elapsed, totalDuration, maxWorkers, maxBatchSize) ==
    IF elapsed >= totalDuration THEN <<maxBatchSize, maxWorkers>>
    ELSE LinearRamp(ClampProgress(F64Quo(elapsed, totalDuration)),
                    maxWorkers, maxBatchSize,
                    max(1, maxWorkers \div 10), max(100, maxBatchSize \div 10))

\* calculateDynamicLoad: <<currentWorkers, currentBatchSize>>.
calculateDynamicLoad(elapsed, totalDuration, maxWorkers, maxBatchSize) ==
    IF elapsed >= totalDuration THEN <<maxWorkers, maxBatchSize>>
    ELSE LinearRamp(ClampProgress(F64Quo(elapsed, totalDuration)),
                    maxWorkers, maxBatchSize,
                    max(1, maxWorkers \div 10), max(100, maxBatchSize \div 10))

\* Go's integer division truncates toward zero.
GoQuo(a, b) == IF a >= 0 THEN a \div b ELSE 0 - ((0 - a) \div b)

(***************************************************************************)
(* Bounds of the model.                                                    *)
(***************************************************************************)
\* Size of the worker pool.
NumWorkers == 2
\* Most calls (inserts, then searches) the workers of one phase issue.
MaxOps == 2
\* Largest duration handed to the ramp function on its own.
MaxTotal == 10
\* Longest time the insertion phase runs on past its deadline.
MaxOverrun == 1

Workers == 1..NumWorkers
\* --duration, in clock ticks.
Durations == {-5, 0, 5}
MaxDuration == CHOOSE d \in Durations : \A e \in Durations : e <= d
\* Batch sizes of the profiles low and medium.
BatchSizes == {500, 2000}

\* Inputs of calculateDynamicLoad checked on its own.
RampWorkers == {1, 5, 100}
RampBatches == {1, 50, 500, 2000}

(***************************************************************************)
(* The pressure switch.  A Go string is a sequence of bytes and the switch *)
(* compares byte by byte; the names below are the ASCII codes of the       *)
(* level names.                                                            *)
(***************************************************************************)
low     == <<108, 111, 119>>
medium  == <<109, 101, 100, 105, 117, 109>>
high    == <<104, 105, 103, 104>>
extreme == <<101, 120, 116, 114, 101, 109, 101>>
\* "High", "HIGH", "Low" and "turbo": values of --pressure that are none of
\* the four names of the switch.
High  == <<72, 105, 103, 104>>
HIGH  == <<72, 73, 71, 72>>
Low   == <<76, 111, 119>>
turbo == <<116, 117, 114, 98, 111>>

\* The values --pressure takes in the model; << >> is the empty string.
Pressures == {low, medium, high, extreme, High, HIGH, Low, turbo, << >>}
\* The values --pressure takes in the runs of the whole program.
RunPressures == {low, medium}

\* flag.String("pressure", "medium", ...): the flag's value, or its default
\* when the flag is not on the command line (given = FALSE).
FlagString(given, value, default) == IF given THEN value ELSE default

\* The switch with the values of "medium" pasted into the case "high".
PressureProfile_PastedCase(p) ==
    CASE p = low     -> [pressureLevel |-> "LOW", workers |-> 5, batch |-> 500]
      [] p = medium  -> [pressureLevel |-> "MEDIUM", workers |-> 20, batch |-> 2000]
      [] p = high    -> [pressureLevel |-> "HIGH", workers |-> 50, batch |-> 2000]
      [] p = extreme -> [pressureLevel |-> "EXTREME", workers |-> 100, batch |-> 10000]
      [] OTHER       -> [pressureLevel |-> "MEDIUM (default)", workers |-> 20,
                         batch |-> 2000]

\* The switch without its default branch: the variables keep their zero
\* values.
PressureProfile_NoDefault(p) ==
    CASE p = low     -> [pressureLevel |-> "LOW", workers |-> 5, batch |-> 500]
      [] p = medium  -> [pressureLevel |-> "MEDIUM", workers |-> 20, batch |-> 2000]
      [] p = high    -> [pressureLevel |-> "HIGH", workers |-> 50, batch |-> 5000]
      [] p = extreme -> [pressureLevel |-> "EXTREME", workers |-> 100, batch |-> 10000]
      [] OTHER       -> [pressureLevel |-> "", workers |-> 0, batch |-> 0]

\* A name with its upper-case ASCII letters made lower-case.
ToLower(p) == [i \in DOMAIN p |-> IF p[i] >= 65 /\ p[i] <= 90 THEN p[i] + 32 ELSE p[i]]

\* The switch over strings.ToLower(*pressure).
PressureProfile_Lowered(p) ==
    CASE ToLower(p) = low     -> [pressureLevel |-> "LOW", workers |-> 5, batch |-> 500]
      [] ToLower(p) = medium  -> [pressureLevel |-> "MEDIUM", workers |-> 20, batch |-> 2000]
      [] ToLower(p) = high    -> [pressureLevel |-> "HIGH", workers |-> 50, batch |-> 5000]
      [] ToLower(p) = extreme -> [pressureLevel |-> "EXTREME", workers |-> 100,
                                  batch |-> 10000]
      [] OTHER                -> [pressureLevel |-> "MEDIUM (default)", workers |-> 20,
                                  batch |-> 2000]

\* switch *pressure (lines 125-146): pressureLevel,
\* numConcurrentGoroutines and batchSize of a level name.
PressureProfile(p) ==
    CASE p = low     -> [pressureLevel |-> "LOW", workers |-> 5, batch |-> 500]
      [] p = medium  -> [pressureLevel |-> "MEDIUM", workers |-> 20, batch |-> 2000]
      [] p = high    -> [pressureLevel |-> "HIGH", workers |-> 50, batch |-> 5000]
      [] p = extreme -> [pressureLevel |-> "EXTREME", workers |-> 100, batch |-> 10000]
      [] OTHER       -> [pressureLevel |-> "MEDIUM (default)", workers |-> 20,
                         batch |-> 2000]

\* The worker counts and batch sizes the switch can give.
ProfileWorkers == {PressureProfile(p).workers : p \in Pressures}
ProfileBatches == {PressureProfile(p).batch : p \in Pressures}

VARIABLES
    showHelp, pressure, pressureLevel,
    rampUp, realTime, duration, numConcurrentGoroutines, batchSize,
    opc, exit, collection, session, now,
    insertionStartTime, testEndTime, searchStartTime, searchEndTime,
    totalVectorsInserted, totalSearchesPerformed,
    insertionTime, insertsPerSec, searchTime, searchesPerSec,
    wg, mu, spawned, ipc, currentBatchSize, batchCount, lastThroughput,
    searchWg, searchMu, searchSpawned, spc, searchCount,
    issuedInserts, failedInserts, okVectors, completedInserts,
    issuedSearches, failedSearches, failedCall,
    rampArgs, rampPrev, rampOut,
    testNormal, testMedium, testHigh, testVeryHigh,
    trafficLevel, numBatchesPerGoroutine, totalInserts

\* The flags and settings of the fixed-batch variant of the program.
fixedVars  == <<testNormal, testMedium, testHigh, testVeryHigh,
                trafficLevel, numBatchesPerGoroutine, totalInserts>>
cfgVars    == <<showHelp, pressure, pressureLevel, rampUp, realTime,
                duration,
                numConcurrentGoroutines, batchSize, fixedVars>>
timeVars   == <<insertionStartTime, testEndTime, searchStartTime, searchEndTime>>
totalVars  == <<totalVectorsInserted, totalSearchesPerformed>>
metricVars == <<insertionTime, insertsPerSec, searchTime, searchesPerSec>>
insertVars == <<wg, mu, spawned, ipc, currentBatchSize, batchCount,
                lastThroughput>>
searchVars == <<searchWg, searchMu, searchSpawned, spc, searchCount>>
ghostVars  == <<issuedInserts, failedInserts, okVectors, completedInserts,
                issuedSearches, failedSearches, failedCall>>
rampVars   == <<rampArgs, rampPrev, rampOut>>
vars == <<cfgVars, opc, exit, collection, session, now, timeVars, totalVars,
          metricVars, insertVars, searchVars, ghostVars, rampVars>>

NoRamp == <<0, 0>>

\* float64(total) / elapsed.Seconds() (line 272) as the fraction
\* total/elapsed in lowest terms, the clock counting whole seconds: two
\* quotients are the same float64 exactly when the fractions are the same.
\* <<1, 0>> is +Inf (a positive total over a zero elapsed time) and
\* <<0, 0>> is NaN (zero over zero).
RECURSIVE Gcd(_, _)
Gcd(a, b) == IF b = 0 THEN a ELSE Gcd(b, a % b)

Throughput(total, elapsed) ==
    IF elapsed = 0 THEN (IF total = 0 THEN <<0, 0>> ELSE <<1, 0>>)
    ELSE <<total \div Gcd(total, elapsed), elapsed \div Gcd(total, elapsed)>>

\* The float64 0: lastThroughput := 0.0 (line 239), and the value of
\* insertsPerSec and searchesPerSec as declared (lines 171-172).
ZeroThroughput == <<0, 1>>

\* The two results of a float64 division by zero.
NaN == <<0, 0>>
PosInf == <<1, 0>>

\* currentThroughput != lastThroughput (line 273); NaN differs from
\* every float64, itself included.
ThroughputDiffers(a, b) == a = <<0, 0>> \/ b = <<0, 0>> \/ a # b

\* The workers the model runs: the pool of numConcurrentGoroutines workers,
\* cut to the first NumWorkers of them.
PoolSize ==
    IF numConcurrentGoroutines < NumWorkers THEN numConcurrentGoroutines
    ELSE NumWorkers

\* The program run is main.go, not its fixed-batch variant.
VariantIdle ==
    /\ testNormal = FALSE /\ testMedium = FALSE
    /\ testHigh = FALSE /\ testVeryHigh = FALSE
    /\ trafficLevel = ""
    /\ numBatchesPerGoroutine = 0
    /\ totalInserts = 0

\* main() has parsed its flags (lines 105-113) and declared its variables
\* (lines 122-123, 163-175): no profile resolved, nothing connected, both
\* totals zero, no goroutine yet.
MainIdle ==
    /\ pressureLevel = ""
    /\ numConcurrentGoroutines = 0
    /\ batchSize = 0
    /\ opc = "Profile"
    /\ exit = -1
    /\ session = "none"
    /\ now = 0
    /\ insertionStartTime = 0 /\ testEndTime = 0
    /\ searchStartTime = 0 /\ searchEndTime = 0
    /\ totalVectorsInserted = 0 /\ totalSearchesPerformed = 0
    /\ insertionTime = 0 /\ insertsPerSec = ZeroThroughput
    /\ searchTime = 0 /\ searchesPerSec = ZeroThroughput
    /\ wg = 0 /\ mu = 0 /\ spawned = 0
    /\ ipc = [w \in Workers |-> "idle"]
    /\ currentBatchSize = [w \in Workers |-> 0]
    /\ batchCount = [w \in Workers |-> 0]
    /\ lastThroughput = [w \in Workers |-> ZeroThroughput]
    /\ searchWg = 0 /\ searchMu = 0 /\ searchSpawned = 0
    /\ spc = [w \in Workers |-> "idle"]
    /\ searchCount = [w \in Workers |-> 0]
    /\ issuedInserts = 0 /\ failedInserts = 0 /\ okVectors = 0
    /\ completedInserts = 0
    /\ issuedSearches = 0 /\ failedSearches = 0
    /\ failedCall = ""
    /\ rampArgs = <<0, 0, 0, 0>> /\ rampPrev = NoRamp /\ rampOut = NoRamp

NothingStarted == VariantIdle /\ MainIdle

\* The runs of the whole program: the flag combinations over RunPressures
\* and Durations, ramp-up being run with the low profile and without
\* real-time monitoring; with or without a collection left by an earlier
\* run.
Init ==
    /\ showHelp \in BOOLEAN
    /\ \E given \in BOOLEAN, value \in RunPressures :
           pressure = FlagString(given, value, medium)
    /\ rampUp \in BOOLEAN
    /\ realTime \in BOOLEAN
    /\ rampUp => (pressure = low /\ ~realTime)
    /\ duration \in Durations
    /\ collection \in BOOLEAN
    /\ NothingStarted

Running == exit = -1

\* --help: the help text is printed and main returns (lines 115-119), before
\* anything else is done.
ShowHelp ==
    /\ Running /\ opc = "Profile"
    /\ showHelp
    /\ opc' = "Help"
    /\ exit' = 0
    /\ UNCHANGED <<cfgVars, collection, session, now, timeVars, totalVars,
                   metricVars, insertVars, searchVars, ghostVars, rampVars>>

\* The pressure switch entered whether or not --help was given.
ResolveProfile_IgnoringHelp ==
    /\ Running /\ opc = "Profile"
    /\ pressureLevel' = PressureProfile(pressure).pressureLevel
    /\ numConcurrentGoroutines' = PressureProfile(pressure).workers
    /\ batchSize' = PressureProfile(pressure).batch
    /\ opc' = "Connect"
    /\ UNCHANGED <<showHelp, pressure, rampUp, realTime, duration, fixedVars,
                   exit, collection, session, now, timeVars, totalVars,
                   metricVars, insertVars, searchVars, ghostVars, rampVars>>

\* The pressure switch (lines 121-146), reached when --help is absent.
ResolveProfile ==
    /\ Running /\ opc = "Profile"
    /\ ~showHelp
    /\ pressureLevel' = PressureProfile(pressure).pressureLevel
    /\ numConcurrentGoroutines' = PressureProfile(pressure).workers
    /\ batchSize' = PressureProfile(pressure).batch
    /\ opc' = "Connect"
    /\ UNCHANGED <<showHelp, pressure, rampUp, realTime, duration, fixedVars,
                   exit,
                   collection, session, now, timeVars, totalVars, metricVars, insertVars, searchVars, ghostVars,
                   rampVars>>

\* Fatal with a clean-up on the way out: the collection is dropped before
\* the process exits.
Fatal_WithCleanup ==
    /\ failedCall' = opc
    /\ exit' = 1
    /\ collection' = FALSE
    /\ UNCHANGED <<cfgVars, opc, session, now, timeVars, totalVars, metricVars,
                   insertVars, searchVars, rampVars,
                   issuedInserts, failedInserts, okVectors, completedInserts,
                   issuedSearches, failedSearches>>

\* The call of the current stage returns an error, and log.Fatalf prints it
\* and ends the process with os.Exit(1) on the spot.
Fatal ==
    /\ failedCall' = opc
    /\ exit' = 1
    /\ UNCHANGED <<cfgVars, opc, collection, session, now, timeVars, totalVars, metricVars,
                   insertVars, searchVars, rampVars,
                   issuedInserts, failedInserts, okVectors, completedInserts,
                   issuedSearches, failedSearches>>

\* The orchestrator moves to stage s; nothing else changes.
Advance(s) ==
    /\ opc' = s
    /\ UNCHANGED <<cfgVars, exit, collection, session, now, timeVars, totalVars, metricVars,
                   insertVars, searchVars, ghostVars, rampVars>>

\* Step 1: client.NewClient (lines 177-187); the session is open, and its
\* Close is deferred to the return of main (line 185).
Connect ==
    /\ Running /\ opc = "Connect"
    /\ \/ /\ opc' = "HasCollection"
          /\ session' = "open"
          /\ UNCHANGED <<cfgVars, exit, collection, now, timeVars, totalVars,
                         metricVars, insertVars, searchVars, ghostVars,
                         rampVars>>
       \/ Fatal

\* HasCollection with its result ignored: the collection is never dropped.
HasCollection_NoDrop ==
    /\ Running /\ opc = "HasCollection"
    /\ \/ Advance("CreateCollection")
       \/ Fatal

\* Step 2: HasCollection (lines 189-203).
HasCollection ==
    /\ Running /\ opc = "HasCollection"
    /\ \/ Advance(IF collection THEN "DropExisting" ELSE "CreateCollection")
       \/ Fatal

\* Step 2: DropCollection of a collection left by an earlier run (lines 196-200).
DropExisting ==
    /\ Running /\ opc = "DropExisting"
    /\ \/ /\ opc' = "CreateCollection"
          /\ collection' = FALSE
          /\ UNCHANGED <<cfgVars, exit, session, now, timeVars, totalVars, metricVars,
                         insertVars, searchVars, ghostVars, rampVars>>
       \/ Fatal

\* Step 3: CreateCollection, then the set-up of the insertion phase
\* (lines 205-228).
CreateCollection ==
    /\ Running /\ opc = "CreateCollection"
    /\ \/ /\ opc' = "InsertPhase"
          /\ collection' = TRUE
          /\ insertionStartTime' = now
          /\ testEndTime' = now + duration
          /\ UNCHANGED <<cfgVars, exit, session, now, searchStartTime, searchEndTime,
                         totalVars, metricVars, insertVars, searchVars, ghostVars, rampVars>>
       \/ Fatal

\* Step 4: one turn of the loop that starts the insert workers
\* (lines 231-239: wg.Add(1); go func ...; batchCount := 0;
\* lastThroughput := 0.0).
SpawnInsert ==
    /\ Running /\ opc = "InsertPhase"
    /\ spawned < PoolSize
    /\ wg' = wg + 1
    /\ spawned' = spawned + 1
    /\ ipc' = [ipc EXCEPT ![spawned + 1] = "check"]
    /\ batchCount' = [batchCount EXCEPT ![spawned + 1] = 0]
    /\ lastThroughput' = [lastThroughput EXCEPT ![spawned + 1] = ZeroThroughput]
    /\ UNCHANGED <<cfgVars, opc, exit, collection, session, now, timeVars, totalVars, metricVars,
                   mu, currentBatchSize, searchVars, ghostVars, rampVars>>

\* InsertLoopTop with !time.Now().After(testEndTime) for
\* time.Now().Before(testEndTime): the loop is entered at the deadline
\* itself.
InsertLoopTop_NotAfter(w) ==
    /\ Running /\ ipc[w] = "check"
    /\ \/ /\ now <= testEndTime
          /\ issuedInserts + Cardinality({v \in Workers : ipc[v] = "gen"}) < MaxOps
          /\ ipc' = [ipc EXCEPT ![w] = "gen"]
          /\ UNCHANGED <<wg, currentBatchSize, batchCount, lastThroughput,
                         completedInserts>>
       \/ /\ ~(now <= testEndTime)
          /\ ipc' = [ipc EXCEPT ![w] = "done"]
          /\ wg' = wg - 1
          /\ completedInserts' = completedInserts + batchCount[w]
          /\ currentBatchSize' = [currentBatchSize EXCEPT ![w] = 0]
          /\ batchCount' = [batchCount EXCEPT ![w] = 0]
          /\ lastThroughput' = [lastThroughput EXCEPT ![w] = ZeroThroughput]
    /\ UNCHANGED <<cfgVars, opc, exit, collection, session, now, timeVars, totalVars, metricVars,
                   mu, spawned, searchVars, rampVars,
                   issuedInserts, failedInserts, okVectors,
                   issuedSearches, failedSearches, failedCall>>

\* InsertLoopTop with the loop condition dropped (for { ... }): the worker
\* never looks at the deadline.
InsertLoopTop_Forever(w) ==
    /\ Running /\ ipc[w] = "check"
    /\ issuedInserts + Cardinality({v \in Workers : ipc[v] = "gen"}) < MaxOps
    /\ ipc' = [ipc EXCEPT ![w] = "gen"]
    /\ UNCHANGED <<cfgVars, opc, exit, collection, session, now, timeVars, totalVars,
                   metricVars, wg, mu, spawned, currentBatchSize, batchCount,
                   lastThroughput, searchVars, ghostVars, rampVars>>

\* Loop top of an insert worker (line 241); past the deadline the worker
\* returns, its deferred wg.Done() runs (lines 234, 282) and its locals are
\* gone; completedInserts keeps the batch count it reports on line 282.
InsertLoopTop(w) ==
    /\ Running /\ ipc[w] = "check"
    /\ \/ /\ now < testEndTime
          /\ issuedInserts + Cardinality({v \in Workers : ipc[v] = "gen"}) < MaxOps
          /\ ipc' = [ipc EXCEPT ![w] = "gen"]
          /\ UNCHANGED <<wg, currentBatchSize, batchCount, lastThroughput,
                         completedInserts>>
       \/ /\ ~(now < testEndTime)
          /\ ipc' = [ipc EXCEPT ![w] = "done"]
          /\ wg' = wg - 1
          /\ completedInserts' = completedInserts + batchCount[w]
          /\ currentBatchSize' = [currentBatchSize EXCEPT ![w] = 0]
          /\ batchCount' = [batchCount EXCEPT ![w] = 0]
          /\ lastThroughput' = [lastThroughput EXCEPT ![w] = ZeroThroughput]
    /\ UNCHANGED <<cfgVars, opc, exit, collection, session, now, timeVars, totalVars, metricVars,
                   mu, spawned, searchVars, rampVars,
                   issuedInserts, failedInserts, okVectors,
                   issuedSearches, failedSearches, failedCall>>

\* calculateDynamicLoad on the arguments the insert workers pass to it,
\* computed once (@@ makes TLC build the table).
LoadTable ==
    [a \in (0..(MaxDuration + MaxOverrun)) \X Durations \X ProfileWorkers \X ProfileBatches |->
        calculateDynamicLoad(a[1], a[2], a[3], a[4])] @@ << >>

\* BatchSizeNow with the two results of calculateDynamicLoad taken in the
\* wrong order.
BatchSizeNow_Workers ==
    IF rampUp
    THEN LoadTable[<<now - insertionStartTime, duration,
                     numConcurrentGoroutines, batchSize>>][1]
    ELSE batchSize

\* The size of this iteration's batch (lines 243-247).
BatchSizeNow ==
    IF rampUp
    THEN LoadTable[<<now - insertionStartTime, duration,
                     numConcurrentGoroutines, batchSize>>][2]
    ELSE batchSize

\* InsertCall with mu.Lock() moved up in front of the call.
InsertCall_HoldingLock(w) ==
    /\ Running /\ ipc[w] = "gen"
    /\ mu = 0
    /\ mu' = w
    /\ currentBatchSize' = [currentBatchSize EXCEPT ![w] = BatchSizeNow]
    /\ ipc' = [ipc EXCEPT ![w] = "call"]
    /\ issuedInserts' = issuedInserts + 1
    /\ UNCHANGED <<cfgVars, opc, exit, collection, session, now, timeVars, totalVars, metricVars,
                   wg, spawned, batchCount, lastThroughput, searchVars,
                   rampVars, failedInserts, okVectors, completedInserts,
                   issuedSearches, failedSearches, failedCall>>

\* The worker builds its batch and calls Insert (lines 243-258).
InsertCall(w) ==
    /\ Running /\ ipc[w] = "gen"
    /\ currentBatchSize' = [currentBatchSize EXCEPT ![w] = BatchSizeNow]
    /\ ipc' = [ipc EXCEPT ![w] = "call"]
    /\ issuedInserts' = issuedInserts + 1
    /\ UNCHANGED <<cfgVars, opc, exit, collection, session, now, timeVars, totalVars, metricVars,
                   wg, mu, spawned, batchCount, lastThroughput, searchVars,
                   rampVars, failedInserts, okVectors, completedInserts, issuedSearches,
                   failedSearches, failedCall>>

\* InsertReturn without the continue of line 261: a failed batch goes on to
\* the counter like a successful one.
InsertReturn_NoContinue(w) ==
    /\ Running /\ ipc[w] = "call"
    /\ \/ /\ ipc' = [ipc EXCEPT ![w] = "lock"]
          /\ failedInserts' = failedInserts + 1
          /\ UNCHANGED okVectors
       \/ /\ ipc' = [ipc EXCEPT ![w] = "lock"]
          /\ okVectors' = okVectors + currentBatchSize[w]
          /\ UNCHANGED failedInserts
    /\ UNCHANGED <<cfgVars, opc, exit, collection, session, now, timeVars, totalVars, metricVars,
                   wg, mu, spawned, currentBatchSize, batchCount,
                   lastThroughput, searchVars, rampVars, issuedInserts,
                   completedInserts,
                   issuedSearches, failedSearches, failedCall>>

\* InsertReturn with break for the continue of line 261: a failed batch ends
\* the worker.
InsertReturn_Break(w) ==
    /\ Running /\ ipc[w] = "call"
    /\ \/ /\ ipc' = [ipc EXCEPT ![w] = "done"]
          /\ failedInserts' = failedInserts + 1
          /\ UNCHANGED okVectors
       \/ /\ ipc' = [ipc EXCEPT ![w] = "lock"]
          /\ okVectors' = okVectors + currentBatchSize[w]
          /\ UNCHANGED failedInserts
    /\ UNCHANGED <<cfgVars, opc, exit, collection, session, now, timeVars, totalVars, metricVars,
                   wg, mu, spawned, currentBatchSize, batchCount,
                   lastThroughput, searchVars, rampVars, issuedInserts,
                   completedInserts, issuedSearches, failedSearches, failedCall>>

\* Insert returns: an error is logged and the loop continues (lines 259-262),
\* otherwise the worker goes on to the counter.
InsertReturn(w) ==
    /\ Running /\ ipc[w] = "call"
    /\ \/ /\ ipc' = [ipc EXCEPT ![w] = "check"]
          /\ failedInserts' = failedInserts + 1
          /\ UNCHANGED okVectors
       \/ /\ ipc' = [ipc EXCEPT ![w] = "lock"]
          /\ okVectors' = okVectors + currentBatchSize[w]
          /\ UNCHANGED failedInserts
    /\ UNCHANGED <<cfgVars, opc, exit, collection, session, now, timeVars, totalVars, metricVars,
                   wg, mu, spawned, currentBatchSize, batchCount,
                   lastThroughput, searchVars, rampVars, issuedInserts,
                   completedInserts,
                   issuedSearches, failedSearches, failedCall>>

\* InsertLock on a mutex declared inside the goroutine: it excludes nobody.
InsertLock_OwnMutex(w) ==
    /\ Running /\ ipc[w] = "lock"
    /\ mu' = w
    /\ ipc' = [ipc EXCEPT ![w] = "crit"]
    /\ UNCHANGED <<cfgVars, opc, exit, collection, session, now, timeVars, totalVars, metricVars,
                   wg, spawned, currentBatchSize, batchCount, lastThroughput,
                   searchVars, ghostVars, rampVars>>

\* mu.Lock() (line 265).
InsertLock(w) ==
    /\ Running /\ ipc[w] = "lock"
    /\ mu = 0
    /\ mu' = w
    /\ ipc' = [ipc EXCEPT ![w] = "crit"]
    /\ UNCHANGED <<cfgVars, opc, exit, collection, session, now, timeVars, totalVars, metricVars,
                   wg, spawned, currentBatchSize, batchCount, lastThroughput,
                   searchVars, ghostVars, rampVars>>

\* InsertAdd with = for +=.
InsertAdd_Assign(w) ==
    /\ Running /\ ipc[w] = "crit"
    /\ totalVectorsInserted' = currentBatchSize[w]
    /\ mu' = 0
    /\ ipc' = [ipc EXCEPT ![w] = "rt"]
    /\ UNCHANGED <<cfgVars, opc, exit, collection, session, now, timeVars,
                   totalSearchesPerformed, metricVars, wg, spawned, currentBatchSize,
                   batchCount, lastThroughput, searchVars, ghostVars, rampVars>>

\* totalVectorsInserted += int64(currentBatchSize); mu.Unlock()
\* (lines 266-267).
InsertAdd(w) ==
    /\ Running /\ ipc[w] = "crit"
    /\ totalVectorsInserted' = totalVectorsInserted + currentBatchSize[w]
    /\ mu' = 0
    /\ ipc' = [ipc EXCEPT ![w] = "rt"]
    /\ UNCHANGED <<cfgVars, opc, exit, collection, session, now, timeVars,
                   totalSearchesPerformed, metricVars, wg, spawned, currentBatchSize,
                   batchCount, lastThroughput, searchVars, ghostVars, rampVars>>

\* The throughput a worker computes for its snapshot: it reads
\* totalVectorsInserted without the mutex (lines 271-272).  The read races
\* with the += of another worker and returns the total before or after it
\* (the totals of the model fit in one machine word): both are here, as
\* the two orders of the reader's step and the writer's step.
CurrentThroughput == Throughput(totalVectorsInserted, now - insertionStartTime)

\* EmitsSnapshot without batchCount%10 == 0: a snapshot after every batch.
EmitsSnapshot_EveryBatch(w) ==
    /\ realTime
    /\ ThroughputDiffers(CurrentThroughput, lastThroughput[w])

\* A worker prints a snapshot (lines 270-277): real-time monitoring is on,
\* its batch count is a multiple of 10 and the throughput is not the one it
\* printed last.
EmitsSnapshot(w) ==
    /\ realTime /\ batchCount[w] % 10 = 0
    /\ ThroughputDiffers(CurrentThroughput, lastThroughput[w])

\* InsertCount with the snapshot's read of the total put under mu.Lock().
InsertCount_Locked(w) ==
    /\ Running /\ ipc[w] = "rt"
    /\ mu = 0
    /\ lastThroughput' = IF EmitsSnapshot(w)
                         THEN [lastThroughput EXCEPT ![w] = CurrentThroughput]
                         ELSE lastThroughput
    /\ batchCount' = [batchCount EXCEPT ![w] = batchCount[w] + 1]
    /\ ipc' = [ipc EXCEPT ![w] = "check"]
    /\ UNCHANGED <<cfgVars, opc, exit, collection, session, now, timeVars, totalVars, metricVars,
                   wg, mu, spawned, currentBatchSize,
                   searchVars, ghostVars, rampVars>>

\* Real-time monitoring and batchCount++ (lines 269-280).
InsertCount(w) ==
    /\ Running /\ ipc[w] = "rt"
    /\ lastThroughput' = IF EmitsSnapshot(w)
                         THEN [lastThroughput EXCEPT ![w] = CurrentThroughput]
                         ELSE lastThroughput
    /\ batchCount' = [batchCount EXCEPT ![w] = batchCount[w] + 1]
    /\ ipc' = [ipc EXCEPT ![w] = "check"]
    /\ UNCHANGED <<cfgVars, opc, exit, collection, session, now, timeVars, totalVars, metricVars,
                   wg, mu, spawned, currentBatchSize,
                   searchVars, ghostVars, rampVars>>

\* The orchestrator measures the insertion phase (lines 287-288).
MeasureInsertion ==
    /\ opc' = "Flush"
    /\ insertionTime' = now - insertionStartTime
    /\ insertsPerSec' = Throughput(totalVectorsInserted, now - insertionStartTime)
    /\ UNCHANGED <<cfgVars, exit, collection, session, now, timeVars, totalVars,
                   searchTime, searchesPerSec, insertVars, searchVars,
                   ghostVars, rampVars>>

\* InsertJoin without wg.Wait().
InsertJoin_NoWait ==
    /\ Running /\ opc = "InsertPhase"
    /\ ~(spawned < PoolSize)
    /\ MeasureInsertion

\* wg.Wait() returns and the phase is measured (lines 286-292).
InsertJoin ==
    /\ Running /\ opc = "InsertPhase"
    /\ ~(spawned < PoolSize)
    /\ wg = 0
    /\ MeasureInsertion

\* Flush going on to step 6, past the index.
Flush_SkipIndex ==
    /\ Running /\ opc = "Flush"
    /\ \/ Advance("LoadCollection")
       \/ Fatal

\* Flush (lines 294-301).
Flush ==
    /\ Running /\ opc = "Flush"
    /\ \/ Advance("CreateIndex")
       \/ Fatal

\* CreateIndex with its error dropped instead of passed to log.Fatalf.
CreateIndex_ErrorIgnored ==
    /\ Running /\ opc = "CreateIndex"
    /\ \/ Advance("LoadCollection")
       \/ /\ failedCall' = opc
          /\ opc' = "LoadCollection"
          /\ UNCHANGED <<cfgVars, exit, collection, session, now, timeVars, totalVars, metricVars,
                         insertVars, searchVars, rampVars,
                         issuedInserts, failedInserts, okVectors, completedInserts,
                         issuedSearches, failedSearches>>

\* Step 5: CreateIndex (lines 303-312).
CreateIndex ==
    /\ Running /\ opc = "CreateIndex"
    /\ \/ Advance("LoadCollection")
       \/ Fatal

\* LoadCollection with the search deadline counted from the deadline of the
\* insertion phase.
LoadCollection_FromInsertDeadline ==
    /\ Running /\ opc = "LoadCollection"
    /\ \/ /\ opc' = "SearchPhase"
          /\ searchStartTime' = now
          /\ searchEndTime' = testEndTime + GoQuo(duration, 4)
          /\ UNCHANGED <<cfgVars, exit, collection, session, now, insertionStartTime,
                         testEndTime, totalVars, metricVars, insertVars, searchVars,
                         ghostVars, rampVars>>
       \/ Fatal

\* Step 6: LoadCollection, then the set-up of the search phase
\* (lines 314-330).
LoadCollection ==
    /\ Running /\ opc = "LoadCollection"
    /\ \/ /\ opc' = "SearchPhase"
          /\ searchStartTime' = now
          /\ searchEndTime' = now + GoQuo(duration, 4)
          /\ UNCHANGED <<cfgVars, exit, collection, session, now, insertionStartTime,
                         testEndTime, totalVars, metricVars, insertVars, searchVars,
                         ghostVars, rampVars>>
       \/ Fatal

\* Step 7: one turn of the loop that starts the search workers
\* (lines 332-339).
SpawnSearch ==
    /\ Running /\ opc = "SearchPhase"
    /\ searchSpawned < PoolSize
    /\ searchWg' = searchWg + 1
    /\ searchSpawned' = searchSpawned + 1
    /\ spc' = [spc EXCEPT ![searchSpawned + 1] = "check"]
    /\ searchCount' = [searchCount EXCEPT ![searchSpawned + 1] = 0]
    /\ UNCHANGED <<cfgVars, opc, exit, collection, session, now, timeVars, totalVars, metricVars,
                   insertVars, searchMu, ghostVars, rampVars>>

\* SearchLoopTop with !time.Now().After(searchEndTime) for
\* time.Now().Before(searchEndTime): the loop is entered at the deadline
\* itself.
SearchLoopTop_NotAfter(w) ==
    /\ Running /\ spc[w] = "check"
    /\ \/ /\ now <= searchEndTime
          /\ issuedSearches < MaxOps
          /\ spc' = [spc EXCEPT ![w] = "call"]
          /\ issuedSearches' = issuedSearches + 1
          /\ UNCHANGED <<searchWg, searchCount>>
       \/ /\ ~(now <= searchEndTime)
          /\ spc' = [spc EXCEPT ![w] = "done"]
          /\ searchWg' = searchWg - 1
          /\ searchCount' = [searchCount EXCEPT ![w] = 0]
          /\ UNCHANGED issuedSearches
    /\ UNCHANGED <<cfgVars, opc, exit, collection, session, now, timeVars, totalVars,
                   metricVars, insertVars, searchMu, searchSpawned, rampVars,
                   issuedInserts, failedInserts, okVectors, completedInserts,
                   failedSearches, failedCall>>

\* Loop top of a search worker (line 340); past the deadline the worker
\* returns, its deferred searchWg.Done() runs (lines 335, 361) and its
\* locals are gone.
SearchLoopTop(w) ==
    /\ Running /\ spc[w] = "check"
    /\ \/ /\ now < searchEndTime
          /\ issuedSearches < MaxOps
          /\ spc' = [spc EXCEPT ![w] = "call"]
          /\ issuedSearches' = issuedSearches + 1
          /\ UNCHANGED <<searchWg, searchCount>>
       \/ /\ ~(now < searchEndTime)
          /\ spc' = [spc EXCEPT ![w] = "done"]
          /\ searchWg' = searchWg - 1
          /\ searchCount' = [searchCount EXCEPT ![w] = 0]
          /\ UNCHANGED issuedSearches
    /\ UNCHANGED <<cfgVars, opc, exit, collection, session, now, timeVars, totalVars, metricVars,
                   insertVars, searchMu, searchSpawned, rampVars,
                   issuedInserts, failedInserts, okVectors, completedInserts,
                   failedSearches, failedCall>>

\* SearchReturn without the continue of line 351: a failed search goes on to
\* the counter like a successful one.
SearchReturn_NoContinue(w) ==
    /\ Running /\ spc[w] = "call"
    /\ \/ /\ spc' = [spc EXCEPT ![w] = "lock"]
          /\ failedSearches' = failedSearches + 1
       \/ /\ spc' = [spc EXCEPT ![w] = "lock"]
          /\ UNCHANGED failedSearches
    /\ UNCHANGED <<cfgVars, opc, exit, collection, session, now, timeVars, totalVars, metricVars,
                   insertVars, searchWg, searchMu, searchSpawned, searchCount,
                   rampVars, issuedInserts, failedInserts, okVectors,
                   completedInserts, issuedSearches, failedCall>>

\* Search returns: an error is logged and the loop continues (lines 348-352).
SearchReturn(w) ==
    /\ Running /\ spc[w] = "call"
    /\ \/ /\ spc' = [spc EXCEPT ![w] = "check"]
          /\ failedSearches' = failedSearches + 1
       \/ /\ spc' = [spc EXCEPT ![w] = "lock"]
          /\ UNCHANGED failedSearches
    /\ UNCHANGED <<cfgVars, opc, exit, collection, session, now, timeVars, totalVars, metricVars,
                   insertVars, searchWg, searchMu, searchSpawned, searchCount,
                   rampVars, issuedInserts, failedInserts, okVectors,
                   completedInserts, issuedSearches, failedCall>>

\* searchMu.Lock() (line 355).
SearchLock(w) ==
    /\ Running /\ spc[w] = "lock"
    /\ searchMu = 0
    /\ searchMu' = w
    /\ spc' = [spc EXCEPT ![w] = "crit"]
    /\ UNCHANGED <<cfgVars, opc, exit, collection, session, now, timeVars, totalVars, metricVars,
                   insertVars, searchWg, searchSpawned, searchCount,
                   ghostVars, rampVars>>

\* SearchAdd counting the search in the insert total.
SearchAdd_IntoInsertTotal(w) ==
    /\ Running /\ spc[w] = "crit"
    /\ totalVectorsInserted' = totalVectorsInserted + 1
    /\ searchMu' = 0
    /\ searchCount' = [searchCount EXCEPT ![w] = searchCount[w] + 1]
    /\ spc' = [spc EXCEPT ![w] = "check"]
    /\ UNCHANGED <<cfgVars, opc, exit, collection, session, now, timeVars,
                   totalSearchesPerformed, metricVars, insertVars, searchWg,
                   searchSpawned, ghostVars, rampVars>>

\* totalSearchesPerformed++; searchMu.Unlock(); searchCount++
\* (lines 356-359).
SearchAdd(w) ==
    /\ Running /\ spc[w] = "crit"
    /\ totalSearchesPerformed' = totalSearchesPerformed + 1
    /\ searchMu' = 0
    /\ searchCount' = [searchCount EXCEPT ![w] = searchCount[w] + 1]
    /\ spc' = [spc EXCEPT ![w] = "check"]
    /\ UNCHANGED <<cfgVars, opc, exit, collection, session, now, timeVars,
                   totalVectorsInserted, metricVars, insertVars, searchWg, searchSpawned,
                   ghostVars, rampVars>>

\* The orchestrator measures the search phase (lines 365-366).
MeasureSearch ==
    /\ opc' = "Cleanup"
    /\ searchTime' = now - searchStartTime
    /\ searchesPerSec' = Throughput(totalSearchesPerformed, now - searchStartTime)
    /\ UNCHANGED <<cfgVars, exit, collection, session, now, timeVars, totalVars,
                   insertionTime, insertsPerSec, insertVars, searchVars,
                   ghostVars, rampVars>>

\* SearchJoin without searchWg.Wait().
SearchJoin_NoWait ==
    /\ Running /\ opc = "SearchPhase"
    /\ ~(searchSpawned < PoolSize)
    /\ MeasureSearch

\* searchWg.Wait() returns and the phase is measured (lines 364-370).
SearchJoin ==
    /\ Running /\ opc = "SearchPhase"
    /\ ~(searchSpawned < PoolSize)
    /\ searchWg = 0
    /\ MeasureSearch

\* Step 8: DropCollection (lines 372-379).
Cleanup ==
    /\ Running /\ opc = "Cleanup"
    /\ \/ /\ opc' = "Report"
          /\ collection' = FALSE
          /\ UNCHANGED <<cfgVars, exit, session, now, timeVars, totalVars, metricVars,
                         insertVars, searchVars, ghostVars, rampVars>>
       \/ Fatal

\* The final summary table is printed and main returns (lines 381-418);
\* the deferred milvusClient.Close() runs (line 185).
Report ==
    /\ Running /\ opc = "Report"
    /\ exit' = 0
    /\ session' = "closed"
    /\ UNCHANGED <<cfgVars, opc, collection, now, timeVars, totalVars, metricVars,
                   insertVars, searchVars, ghostVars, rampVars>>

\* The wall clock advances while a phase runs, to the phase's deadline; the
\* insertion phase lasts at most MaxOverrun longer while a worker is still
\* in an iteration.
Tick ==
    /\ Running
    /\ \/ opc = "InsertPhase" /\ now < testEndTime
       \/ opc = "SearchPhase" /\ now < searchEndTime
       \/ /\ opc = "InsertPhase" /\ now < testEndTime + MaxOverrun
          /\ \E w \in Workers : ipc[w] \in {"gen", "call", "lock", "crit", "rt"}
    /\ now' = now + 1
    /\ UNCHANGED <<cfgVars, opc, exit, collection, session, timeVars, totalVars, metricVars,
                   insertVars, searchVars, ghostVars, rampVars>>

Next ==
    \/ ShowHelp
    \/ ResolveProfile
    \/ Connect
    \/ HasCollection
    \/ DropExisting
    \/ CreateCollection
    \/ SpawnInsert
    \/ \E w \in Workers : InsertLoopTop(w)
    \/ \E w \in Workers : InsertCall(w)
    \/ \E w \in Workers : InsertReturn(w)
    \/ \E w \in Workers : InsertLock(w)
    \/ \E w \in Workers : InsertAdd(w)
    \/ \E w \in Workers : InsertCount(w)
    \/ InsertJoin
    \/ Flush
    \/ CreateIndex
    \/ LoadCollection
    \/ SpawnSearch
    \/ \E w \in Workers : SearchLoopTop(w)
    \/ \E w \in Workers : SearchReturn(w)
    \/ \E w \in Workers : SearchLock(w)
    \/ \E w \in Workers : SearchAdd(w)
    \/ SearchJoin
    \/ Cleanup
    \/ Report
    \/ Tick

Spec == Init /\ [][Next]_vars

(***************************************************************************)
(* Claims about the run.                                                   *)
(***************************************************************************)
\* C37: with --help the program prints the help and ends, whatever the other
\* flags are: the only step it can take is the one that prints the help and
\* returns with status 0; no profile is resolved, no session with the server
\* is opened, no call is issued and no worker of either phase is started.
C37_HelpOnly ==
    showHelp =>
        /\ opc \in {"Profile", "Help"}
        /\ opc = "Profile" =>
               exit = -1 /\ ENABLED ShowHelp /\ ~ENABLED ResolveProfile
        /\ opc = "Help" => exit = 0 /\ ~ENABLED Next
        /\ session = "none"
        /\ pressureLevel = "" /\ numConcurrentGoroutines = 0 /\ batchSize = 0
        /\ failedCall = ""
        /\ spawned = 0 /\ searchSpawned = 0
        /\ issuedInserts = 0 /\ issuedSearches = 0
        /\ totalVectorsInserted = 0 /\ totalSearchesPerformed = 0
        /\ now = 0

C37_Witness ==
    /\ showHelp /\ opc = "Help" /\ exit = 0
    /\ rampUp /\ pressure = low /\ collection

RECURSIVE SumTo(_, _)
SumTo(f, n) == IF n = 0 THEN 0 ELSE f[n] + SumTo(f, n - 1)

\* The insertion phase is over and the search phase has not begun.
InsertionEnded == opc \in {"Flush", "CreateIndex", "LoadCollection"}

\* The search phase is over.
SearchEnded == opc \in {"Cleanup", "Report"}

\* C1: with ramp-up off, the shared insert total is batchSize times the sum
\* over the workers of the inserts each has completed successfully (those
\* of the workers that returned, the batch counts of the running ones, and
\* the insert a worker has added but not yet counted), whatever the
\* interleaving; so when the insertion phase ends the total is batchSize
\* times the number of successful inserts of all workers.
C1_TotalIsSumOfWorkers ==
    /\ ~rampUp =>
          totalVectorsInserted =
              batchSize * (completedInserts + SumTo(batchCount, NumWorkers)
                           + Cardinality({w \in Workers : ipc[w] = "rt"}))
    /\ (InsertionEnded /\ ~rampUp) =>
          /\ totalVectorsInserted = batchSize * completedInserts
          /\ completedInserts = issuedInserts - failedInserts

C1_Witness ==
    /\ opc = "Flush" /\ ~rampUp
    /\ failedInserts = 0
    /\ completedInserts = NumWorkers
    /\ totalVectorsInserted = NumWorkers * 1 * batchSize

\* C2: if k of the inserts issued in the phase fail and the others succeed
\* (fixed batch size), the total at the end of the phase is
\* (issued - k) * batchSize; and the failures abort nothing: the process
\* ends with status 1 only at a set-up or tear-down call that failed.
C2_FailedInsertsNotCounted ==
    /\ (InsertionEnded /\ ~rampUp)
          => totalVectorsInserted = (issuedInserts - failedInserts) * batchSize
    /\ exit = 1 => (failedCall = opc /\ opc \notin {"InsertPhase", "SearchPhase", "Report"})

C2_Witness ==
    /\ exit = 0 /\ opc = "Report" /\ ~rampUp
    /\ failedInserts >= 1
    /\ issuedInserts - failedInserts >= 1
    /\ totalVectorsInserted = (issuedInserts - failedInserts) * batchSize

\* Successful units that have returned and are not yet in the total.
PendingVectors(pcs, sizes) ==
    SumTo([w \in Workers |-> IF pcs[w] \in {"lock", "crit"} THEN sizes[w] ELSE 0],
          NumWorkers)

PendingSearches(pcs) == Cardinality({w \in Workers : pcs[w] \in {"lock", "crit"}})

InFlightSearches(pcs) == Cardinality({w \in Workers : pcs[w] = "call"})

\* C3: a shared total never decreases; each change adds the size of one
\* successful unit of work (the batch sent, or 1 for a search) of the worker
\* that makes it; and every successful unit is in the total exactly once:
\* the total plus the units on their way to it is what succeeded.
C3_CountedExactlyOnce ==
    [][ /\ totalVectorsInserted' # totalVectorsInserted =>
              \E w \in Workers :
                  /\ ipc[w] = "crit"
                  /\ currentBatchSize[w] > 0
                  /\ totalVectorsInserted' = totalVectorsInserted + currentBatchSize[w]
        /\ totalSearchesPerformed' # totalSearchesPerformed =>
              \E w \in Workers :
                  /\ spc[w] = "crit"
                  /\ totalSearchesPerformed' = totalSearchesPerformed + 1
        /\ totalVectorsInserted' + PendingVectors(ipc', currentBatchSize') = okVectors'
        /\ totalSearchesPerformed' + PendingSearches(spc')
              = issuedSearches' - failedSearches' - InFlightSearches(spc')
      ]_vars

C3_Witness ==
    /\ exit = 0
    /\ rampUp /\ totalVectorsInserted > 0 /\ totalVectorsInserted < batchSize
    /\ totalSearchesPerformed > 1
    /\ failedInserts > 0

\* The stage an orchestrator position belongs to, as its place in
\* Connect, EnsureCleanCollection, CreateCollection, InsertPhase, Flush,
\* CreateIndex, LoadCollection, SearchPhase, Cleanup, Report; 0 before the
\* first stage, where a run with --help ends.
StageOf(p) ==
    CASE p = "Profile"          -> 0
      [] p = "Help"             -> 0
      [] p = "Connect"          -> 1
      [] p = "HasCollection"    -> 2
      [] p = "DropExisting"     -> 2
      [] p = "CreateCollection" -> 3
      [] p = "InsertPhase"      -> 4
      [] p = "Flush"            -> 5
      [] p = "CreateIndex"      -> 6
      [] p = "LoadCollection"   -> 7
      [] p = "SearchPhase"      -> 8
      [] p = "Cleanup"          -> 9
      [] p = "Report"           -> 10

C5_FatalStopsTheRun ==
    [][ /\ exit # 1
        /\ failedCall' # "" =>
              /\ exit' = 1
              /\ opc' = failedCall' /\ opc' = opc
              /\ opc' = "Connect" => issuedInserts' = 0
              /\ StageOf(opc') <= 6 => issuedSearches' = 0
              /\ \A w \in Workers : spc'[w] \in {"idle", "done"}
              /\ \A w \in Workers : ipc'[w] \in {"idle", "done"}
      ]_vars

C5_Witness ==
    /\ exit = 1 /\ failedCall = "CreateIndex"
    /\ issuedInserts > 0 /\ issuedSearches = 0

\* C6: the orchestrator leaves a phase only when all of the phase's workers
\* have returned: no insert worker is running at Flush or later, no search
\* worker at Cleanup or later, and no search worker exists while an insert
\* worker is running.
C6_PhaseJoinsItsWorkers ==
    /\ StageOf(opc) >= 5 => \A w \in Workers : ipc[w] = "done"
    /\ StageOf(opc) >= 9 => \A w \in Workers : spc[w] = "done"
    /\ (\E w \in Workers : spc[w] # "idle") => \A w \in Workers : ipc[w] = "done"
    /\ issuedSearches > 0 => \A w \in Workers : ipc[w] = "done"

C6_Witness ==
    /\ opc = "Cleanup"
    /\ totalVectorsInserted > 0
    /\ totalSearchesPerformed > 0

(***************************************************************************)
(* calculateDynamicLoad on its own: the maxima and the duration are drawn  *)
(* at the start, and the function is called at later and later elapsed    *)
(* times.  rampArgs = <<elapsed, total, maxWorkers, maxBatch>> of the last *)
(* call, rampOut its result and rampPrev the result of the call before.    *)
(***************************************************************************)
RampTable ==
    [a \in (0..(MaxTotal + 1)) \X (1..MaxTotal) \X RampWorkers \X RampBatches |->
        calculateDynamicLoad(a[1], a[2], a[3], a[4])] @@ << >>

RampInit ==
    /\ VariantIdle
    /\ showHelp = FALSE
    /\ pressure = medium /\ pressureLevel = ""
    /\ rampUp = FALSE /\ realTime = FALSE /\ duration = 0
    /\ numConcurrentGoroutines = NumWorkers
    /\ batchSize \in BatchSizes
    /\ opc = "Connect" /\ exit = -1 /\ collection = FALSE /\ now = 0
    /\ session = "none"
    /\ insertionStartTime = 0 /\ testEndTime = 0
    /\ searchStartTime = 0 /\ searchEndTime = 0
    /\ totalVectorsInserted = 0 /\ totalSearchesPerformed = 0
    /\ insertionTime = 0 /\ insertsPerSec = ZeroThroughput
    /\ searchTime = 0 /\ searchesPerSec = ZeroThroughput
    /\ wg = 0 /\ mu = 0 /\ spawned = 0
    /\ ipc = [w \in Workers |-> "idle"]
    /\ currentBatchSize = [w \in Workers |-> 0]
    /\ batchCount = [w \in Workers |-> 0]
    /\ lastThroughput = [w \in Workers |-> ZeroThroughput]
    /\ searchWg = 0 /\ searchMu = 0 /\ searchSpawned = 0
    /\ spc = [w \in Workers |-> "idle"]
    /\ searchCount = [w \in Workers |-> 0]
    /\ issuedInserts = 0 /\ failedInserts = 0 /\ okVectors = 0
    /\ completedInserts = 0
    /\ issuedSearches = 0 /\ failedSearches = 0
    /\ failedCall = ""
    /\ rampArgs \in {0} \X (1..MaxTotal) \X RampWorkers \X RampBatches
    /\ rampPrev = NoRamp /\ rampOut = NoRamp

RampCall ==
    \E e \in rampArgs[1]..(MaxTotal + 1) :
        /\ rampArgs' = <<e, rampArgs[2], rampArgs[3], rampArgs[4]>>
        /\ rampPrev' = rampOut
        /\ rampOut' = RampTable[<<e, rampArgs[2], rampArgs[3], rampArgs[4]>>]
        /\ UNCHANGED <<cfgVars, opc, exit, collection, session, now, timeVars, totalVars,
                       metricVars, insertVars, searchVars, ghostVars>>

RampNext == RampCall

SpecRamp == RampInit /\ [][RampNext]_vars

RampCalled == rampOut # NoRamp

\* C7: once elapsed >= total, calculateDynamicLoad returns exactly
\* (maxWorkers, maxBatch).
C7_FullLoadAtDeadline ==
    (RampCalled /\ rampArgs[1] >= rampArgs[2])
        => rampOut = <<rampArgs[3], rampArgs[4]>>

C7_Witness ==
    /\ RampCalled
    /\ rampArgs[1] > rampArgs[2]
    /\ rampArgs[3] = 100 /\ rampArgs[4] = 2000
    /\ rampOut = <<100, 2000>>

\* C8: at elapsed = 0 (total > 0) calculateDynamicLoad returns
\* (max(1, maxWorkers/10), max(100, maxBatch/10)), the divisions being
\* integer divisions.
C8_StartLoadAtZero ==
    (RampCalled /\ rampArgs[1] = 0)
        => rampOut = << IF rampArgs[3] \div 10 > 1 THEN rampArgs[3] \div 10 ELSE 1,
                        IF rampArgs[4] \div 10 > 100 THEN rampArgs[4] \div 10 ELSE 100 >>

C8_Witness ==
    /\ RampCalled
    /\ rampArgs[1] = 0
    /\ rampArgs[3] = 100 /\ rampArgs[4] = 2000
    /\ rampOut = <<10, 200>>

\* C9: for fixed total, maxWorkers and maxBatch, both outputs of
\* calculateDynamicLoad are non-decreasing in elapsed: a later call never
\* returns a smaller worker count or a smaller batch size.
C9_Monotone ==
    (RampCalled /\ rampPrev # NoRamp)
        => (rampPrev[1] <= rampOut[1] /\ rampPrev[2] <= rampOut[2])

\* The linear interpolation of the claim, in exact arithmetic.
ExactRamp(start, maxv, elapsed, total) ==
    start + GoQuo((maxv - start) * elapsed, total)

\* C10: for 0 <= elapsed <= total, each output of calculateDynamicLoad is
\* start + (max - start) * elapsed / total truncated to an integer, and lies
\* between the start value and the configured maximum.
C10_LinearInterpolation ==
    (RampCalled /\ rampArgs[1] <= rampArgs[2]) =>
        LET startWorkers == IF rampArgs[3] \div 10 > 1 THEN rampArgs[3] \div 10 ELSE 1
            startBatch   == IF rampArgs[4] \div 10 > 100 THEN rampArgs[4] \div 10 ELSE 100
        IN  /\ rampOut[1] = ExactRamp(startWorkers, rampArgs[3], rampArgs[1], rampArgs[2])
            /\ rampOut[2] = ExactRamp(startBatch, rampArgs[4], rampArgs[1], rampArgs[2])
            /\ startWorkers <= rampOut[1] /\ rampOut[1] <= rampArgs[3]
            /\ startBatch <= rampOut[2] /\ rampOut[2] <= rampArgs[4]

(***************************************************************************)
(* Claims about the worker loops.                                          *)
(***************************************************************************)
\* Worker w's call fails in this step: it goes from the call back to the
\* loop top.
InsertFails(w) == ipc[w] = "call" /\ ipc'[w] = "check"
SearchFails(w) == spc[w] = "call" /\ spc'[w] = "check"

\* C14: a failed insert or search stops nothing: the step leaves both totals,
\* the other workers, the wait groups and the orchestrator as they were and
\* takes the failing worker to the deadline check at the loop top (every
\* failure is such a step); a worker at the loop top before the deadline can
\* issue its next operation, as far as the model's budget of calls goes.
C14_FailureKeepsWorkerGoing ==
    [][ /\ \A w \in Workers :
              (InsertFails(w) \/ SearchFails(w)) =>
                  /\ UNCHANGED <<totalVars, metricVars, wg, searchWg, mu, searchMu, opc, exit>>
                  /\ \A v \in Workers \ {w} : ipc'[v] = ipc[v] /\ spc'[v] = spc[v]
        /\ failedInserts' # failedInserts => \E w \in Workers : InsertFails(w)
        /\ failedSearches' # failedSearches => \E w \in Workers : SearchFails(w)
        /\ \A w \in Workers :
              /\ (/\ ipc[w] = "check" /\ now < testEndTime
                  /\ issuedInserts + Cardinality({v \in Workers : ipc[v] = "gen"})
                         < MaxOps)
                     => ENABLED (InsertLoopTop(w) /\ ipc'[w] = "gen")
              /\ (spc[w] = "check" /\ now < searchEndTime /\ issuedSearches < MaxOps)
                     => ENABLED (SearchLoopTop(w) /\ spc'[w] = "call")
      ]_vars

\* The only insert worker started so far has failed once and is in its next
\* call.
C14_Witness ==
    /\ spawned = 1 /\ failedInserts = 1 /\ ipc[1] = "call"
    /\ totalVectorsInserted = 0

\* C15: the deadline is checked at the loop top only.  A worker starts an
\* iteration, and so issues a call, only from a check that found the time
\* before the deadline; it leaves its loop only from a check that found the
\* deadline passed, and then never issues anything again; and no step of an
\* iteration under way depends on the time: the call returns, the mutex is
\* taken when free and the total is updated, also after the deadline.
C15_DeadlineAtLoopTopOnly ==
    [][ \A w \in Workers :
          /\ (ipc'[w] = "gen" /\ ipc[w] # "gen") =>
                 ipc[w] = "check" /\ now < testEndTime
          /\ (ipc'[w] = "call" /\ ipc[w] # "call") => ipc[w] = "gen"
          /\ (spc'[w] = "call" /\ spc[w] # "call") =>
                 spc[w] = "check" /\ now < searchEndTime
          /\ (ipc'[w] = "done" /\ ipc[w] # "done") =>
                 ipc[w] = "check" /\ ~(now < testEndTime)
          /\ (spc'[w] = "done" /\ spc[w] # "done") =>
                 spc[w] = "check" /\ ~(now < searchEndTime)
          /\ ipc[w] = "done" => ipc'[w] = "done"
          /\ spc[w] = "done" => spc'[w] = "done"
          /\ ipc[w] = "call" => ENABLED InsertReturn(w)
          /\ (ipc[w] = "lock" /\ mu = 0) => ENABLED InsertLock(w)
          /\ ipc[w] = "crit" => ENABLED InsertAdd(w)
          /\ spc[w] = "call" => ENABLED SearchReturn(w)
          /\ (spc[w] = "lock" /\ searchMu = 0) => ENABLED SearchLock(w)
          /\ spc[w] = "crit" => ENABLED SearchAdd(w)
      ]_vars

\* The deadline has passed during the only insert issued, which succeeded
\* and is in the total.
C15_Witness ==
    /\ duration > 0 /\ now > testEndTime
    /\ issuedInserts = 1
    /\ \E w \in Workers : ipc[w] = "rt"
    /\ totalVectorsInserted = batchSize

\* C16: the batch a worker sends has the profile's batch size when ramp-up
\* is off and, when it is on, the batch size calculateDynamicLoad gives for
\* the time elapsed since the start of the insertion phase, the configured
\* duration and the profile; the worker keeps that size to the end of the
\* iteration, and it is what a successful insert adds to the total.
C16_BatchSizePerIteration ==
    [][ /\ \A w \in Workers :
              /\ (ipc[w] = "gen" /\ ipc'[w] = "call") =>
                     currentBatchSize'[w] =
                         IF rampUp
                         THEN LoadTable[<<now - insertionStartTime, duration,
                                          numConcurrentGoroutines, batchSize>>][2]
                         ELSE batchSize
              /\ (ipc[w] \in {"call", "lock", "crit"} /\ ipc'[w] # "check") =>
                     currentBatchSize'[w] = currentBatchSize[w]
        /\ totalVectorsInserted' # totalVectorsInserted =>
              \E w \in Workers :
                  /\ ipc[w] = "crit" /\ ipc'[w] = "rt"
                  /\ totalVectorsInserted' - totalVectorsInserted = currentBatchSize[w]
      ]_vars

\* With ramp-up on and the low profile (batches of 500), a batch of 100 sent
\* at the start and one of 180 sent a fifth of the duration later are in
\* the total.
C16_Witness ==
    /\ rampUp /\ batchSize = 500 /\ duration = 5
    /\ InsertionEnded
    /\ totalVectorsInserted = 100 + 180

\* C17: the search deadline is the start of the search phase plus a quarter
\* of the configured duration, the quarter being the integer quotient q of
\* the duration by 4, rounded towards zero; the start is the time at which
\* LoadCollection returned, however long the insertion phase lasted.
C17_SearchDeadline ==
    [][ /\ (opc = "LoadCollection" /\ opc' = "SearchPhase") => searchStartTime' = now
        /\ StageOf(opc') >= 8 =>
              LET q == searchEndTime' - searchStartTime'
              IN  /\ duration' >= 0 =>
                         4 * q <= duration' /\ duration' < 4 * q + 4
                  /\ duration' < 0 =>
                         4 * q - 4 < duration' /\ duration' <= 4 * q
                  /\ searchEndTime' = searchStartTime' + GoQuo(duration', 4)
        /\ StageOf(opc) >= 8 =>
              UNCHANGED <<searchStartTime, searchEndTime, duration>>
      ]_vars

\* The insertion phase lasted longer than the duration of 5, and searches
\* are issued in a search phase of length 1.
C17_Witness ==
    /\ opc = "SearchPhase" /\ duration = 5
    /\ searchStartTime > testEndTime
    /\ searchEndTime = searchStartTime + 1
    /\ issuedSearches > 0

\* C19: a total is written only by the worker that holds its mutex; at most
\* one worker is between Lock and Unlock of a mutex, and it is the holder;
\* and a worker whose insert or search call is in flight holds no mutex.
C19_CounterUnderMutex ==
    [][ /\ totalVectorsInserted' # totalVectorsInserted =>
              \E w \in Workers : mu = w /\ ipc[w] = "crit"
        /\ totalSearchesPerformed' # totalSearchesPerformed =>
              \E w \in Workers : searchMu = w /\ spc[w] = "crit"
        /\ Cardinality({w \in Workers : ipc'[w] = "crit"}) <= 1
        /\ Cardinality({w \in Workers : spc'[w] = "crit"}) <= 1
        /\ \A w \in Workers :
              /\ ipc'[w] = "crit" <=> mu' = w
              /\ spc'[w] = "crit" <=> searchMu' = w
              /\ ipc'[w] = "call" => mu' # w
              /\ spc'[w] = "call" => searchMu' # w
      ]_vars

\* One worker holds the mutex while another, its insert done, waits for it.
C19_Witness ==
    /\ NumWorkers >= 2
    /\ mu = 1 /\ ipc[1] = "crit" /\ ipc[2] = "lock"

\* C20: the snapshot takes no lock and waits for nobody.  A worker that has
\* updated the total can always take its snapshot step, whoever holds the
\* mutex and wherever the other workers are; the step changes neither the
\* mutex nor the totals nor another worker; and while a worker is at its
\* snapshot, a worker waiting for the free mutex can take it and the holder
\* of the mutex can update the total.
C20_SnapshotBlocksNobody ==
    [][ \A w \in Workers :
          ipc[w] = "rt" =>
              /\ ENABLED InsertCount(w)
              /\ ipc'[w] # "rt" =>
                     /\ ipc'[w] = "check"
                     /\ UNCHANGED <<mu, totalVars, metricVars, wg>>
                     /\ \A v \in Workers \ {w} : ipc'[v] = ipc[v]
              /\ \A v \in Workers \ {w} :
                     /\ (ipc[v] = "lock" /\ mu = 0) => ENABLED InsertLock(v)
                     /\ ipc[v] = "crit" => ENABLED InsertAdd(v)
      ]_vars

\* Worker 1 is about to print a snapshot while worker 2 holds the mutex.
C20_Witness ==
    /\ NumWorkers >= 2
    /\ realTime /\ ipc[1] = "rt" /\ EmitsSnapshot(1)
    /\ ipc[2] = "crit" /\ mu = 2

(***************************************************************************)
(* Runs in which the calls of one worker may never return.  The main       *)
(* goroutine and every worker goroutine take a step in the end whenever    *)
(* they can take one from some point on (the Go scheduler runs every       *)
(* runnable goroutine), the clock advances, and every Insert and Search    *)
(* call returns, except those of the worker Hung.                          *)
(***************************************************************************)
Hung == 1

HungInit ==
    /\ showHelp \in BOOLEAN
    /\ pressure = low
    /\ rampUp = FALSE
    /\ realTime = FALSE
    /\ duration = MaxDuration
    /\ collection = TRUE
    /\ NothingStarted

\* The steps of the main goroutine.
Orchestrator ==
    \/ ShowHelp
    \/ ResolveProfile \/ Connect \/ HasCollection \/ DropExisting
    \/ CreateCollection \/ SpawnInsert \/ InsertJoin \/ Flush \/ CreateIndex
    \/ LoadCollection \/ SpawnSearch \/ SearchJoin \/ Cleanup \/ Report

\* The steps worker w takes on its own.
WorkerStep(w) ==
    \/ InsertLoopTop(w) \/ InsertCall(w) \/ InsertLock(w) \/ InsertAdd(w)
    \/ InsertCount(w)
    \/ SearchLoopTop(w) \/ SearchLock(w) \/ SearchAdd(w)

\* The data service answers a call of worker w.
CallReturns(w) == InsertReturn(w) \/ SearchReturn(w)

HungFairness ==
    /\ WF_vars(Orchestrator)
    /\ WF_vars(Tick)
    /\ \A w \in Workers : WF_vars(WorkerStep(w))
    /\ \A w \in Workers \ {Hung} : WF_vars(CallReturns(w))

SpecHung == HungInit /\ [][Next]_vars /\ HungFairness

\* C18: whether or not the calls of the worker Hung return, every other
\* worker that has been started leaves its loop in the end.
C18_HungCallBlocksNobody ==
    \A w \in Workers \ {Hung} :
        /\ (ipc[w] = "check") ~> (ipc[w] = "done")
        /\ (spc[w] = "check") ~> (spc[w] = "done")

\* The worker Hung is in its call after the deadline, while another worker
\* has completed an insert issued after that call and has returned.
C18_Witness ==
    /\ ipc[Hung] = "call" /\ now >= testEndTime
    /\ issuedInserts = MaxOps /\ failedInserts = 0
    /\ completedInserts = MaxOps - 1
    /\ \A w \in Workers \ {Hung} : ipc[w] = "done"

(***************************************************************************)
(* The pressure switch: runs with ramp-up and real-time monitoring off,    *)
(* --pressure absent or any value of Pressures.                            *)
(***************************************************************************)
ProfileInit ==
    /\ showHelp \in BOOLEAN
    /\ \E given \in BOOLEAN, value \in Pressures :
           pressure = FlagString(given, value, medium)
    /\ rampUp = FALSE
    /\ realTime = FALSE
    /\ duration \in Durations
    /\ collection = TRUE
    /\ NothingStarted

SpecProfile == ProfileInit /\ [][Next]_vars

\* The profile is resolved.
Resolved == opc \notin {"Profile", "Help"}

\* The four level names.
LevelNames == {low, medium, high, extreme}

\* C11: low, medium, high and extreme resolve to (5, 500), (20, 2000),
\* (50, 5000) and (100, 10000); the resolved pair never changes during the
\* run, bounds the worker pool (all of the pool that the model runs is
\* started) and is the size of every batch sent.
C11_ProfileOfLevel ==
    [][ /\ opc' \notin {"Profile", "Help"} =>
              /\ pressure' = low => numConcurrentGoroutines' = 5 /\ batchSize' = 500
              /\ pressure' = medium => numConcurrentGoroutines' = 20 /\ batchSize' = 2000
              /\ pressure' = high => numConcurrentGoroutines' = 50 /\ batchSize' = 5000
              /\ pressure' = extreme =>
                     numConcurrentGoroutines' = 100 /\ batchSize' = 10000
        /\ opc # "Profile" =>
              /\ numConcurrentGoroutines' = numConcurrentGoroutines
              /\ batchSize' = batchSize
        /\ pressure' = pressure
        /\ spawned' <= numConcurrentGoroutines' /\ searchSpawned' <= numConcurrentGoroutines'
        /\ StageOf(opc') >= 5 =>
              spawned' = (IF numConcurrentGoroutines' < NumWorkers
                          THEN numConcurrentGoroutines' ELSE NumWorkers)
        /\ \A w \in Workers :
              (~rampUp /\ ipc'[w] \in {"call", "lock", "crit", "rt"})
                  => currentBatchSize'[w] = batchSize'
      ]_vars

C11_Witness ==
    /\ exit = 0 /\ pressure = extreme
    /\ numConcurrentGoroutines = 100 /\ batchSize = 10000
    /\ totalVectorsInserted = 10000 * (issuedInserts - failedInserts)
    /\ issuedInserts - failedInserts > 0

\* C12: a level name that is none of the four, or no --pressure at all,
\* resolves to Medium (20 workers, batches of 2000), and the run goes on: it
\* ends with status 1 only where a set-up or tear-down call failed.
C12_UnknownLevelIsMedium ==
    /\ (Resolved /\ (pressure \notin LevelNames \/ pressure = medium)) =>
           numConcurrentGoroutines = 20 /\ batchSize = 2000
    /\ (Resolved /\ pressure \notin LevelNames) => pressureLevel = "MEDIUM (default)"
    /\ exit = 1 => (failedCall = opc /\ StageOf(opc) \in {1, 2, 3, 5, 6, 7, 9})

C12_Witness ==
    /\ exit = 0 /\ pressure = turbo
    /\ numConcurrentGoroutines = 20 /\ batchSize = 2000
    /\ totalVectorsInserted > 0 /\ totalSearchesPerformed > 0

\* C13 as claimed: two level names that differ only in letter case resolve
\* to the same profile.
C13_CaseInsensitive ==
    Resolved =>
        \A q \in Pressures :
            ToLower(q) = ToLower(pressure) =>
                /\ PressureProfile(q).workers = numConcurrentGoroutines
                /\ PressureProfile(q).batch = batchSize

\* C13, amended: names are matched letter for letter: a name that differs
\* from low, medium, high or extreme in letter case only is not recognized
\* and resolves to the Medium default, whereas low, high and extreme
\* themselves resolve to other profiles.
C13_CaseSensitive ==
    Resolved =>
        /\ (ToLower(pressure) \in LevelNames /\ pressure \notin LevelNames) =>
               /\ numConcurrentGoroutines = 20 /\ batchSize = 2000
               /\ pressureLevel = "MEDIUM (default)"
        /\ pressure \in {low, high, extreme} =>
               <<numConcurrentGoroutines, batchSize>> # <<20, 2000>>

C13_Witness ==
    /\ exit = 0 /\ pressure = HIGH
    /\ numConcurrentGoroutines = 20 /\ batchSize = 2000
    /\ totalVectorsInserted > 0

(***************************************************************************)
(* Claims about the measurements and the report.                           *)
(***************************************************************************)

\* The variables the final summary table is printed from (lines 163-175,
\* read on lines 393-415).
SummarySource == <<pressureLevel, duration, numConcurrentGoroutines, batchSize,
                   totalVars, metricVars>>

\* C21: the run holds a count of the failed operations next to the totals
\* of the successful ones: a failed insert or search changes some variable
\* the final report is printed from.
C21_FailuresAreCounted ==
    [][ (\E w \in Workers : InsertFails(w) \/ SearchFails(w))
            => SummarySource' # SummarySource
      ]_vars

\* C22: a throughput over a zero elapsed time is never the result of a
\* division by zero: when the elapsed time measured is zero, the phase
\* throughput stored after the join, and the throughput of a real-time
\* snapshot, is the float64 0 or NaN.
C22_NoDivisionByZero ==
    [][ /\ (opc = "InsertPhase" /\ opc' = "Flush" /\ insertionTime' = 0)
              => insertsPerSec' \in {ZeroThroughput, NaN}
        /\ (opc = "SearchPhase" /\ opc' = "Cleanup" /\ searchTime' = 0)
              => searchesPerSec' \in {ZeroThroughput, NaN}
        /\ \A w \in Workers :
              (/\ ipc[w] = "rt" /\ ipc'[w] = "check"
               /\ realTime /\ batchCount[w] % 10 = 0
               /\ now - insertionStartTime = 0)
                  => CurrentThroughput \in {ZeroThroughput, NaN}
      ]_vars

\* C23: a phase is measured after all of its workers have returned: at the
\* step that stores the phase's elapsed time and throughput no worker of
\* the phase is running and the shared total holds every successful
\* operation of the phase; from then on the total does not change, so the
\* phase result and the final report show the final value of the counter,
\* and the throughput stored is that total over the elapsed time stored.
C23_MeasuredAfterJoin ==
    [][ /\ (opc = "InsertPhase" /\ opc' = "Flush") =>
              /\ \A w \in Workers : ipc[w] \in {"idle", "done"}
              /\ spawned = PoolSize
              /\ insertionTime' = now - insertionStartTime
              /\ totalVectorsInserted = okVectors
        /\ (opc = "SearchPhase" /\ opc' = "Cleanup") =>
              /\ \A w \in Workers : spc[w] \in {"idle", "done"}
              /\ searchSpawned = PoolSize
              /\ searchTime' = now - searchStartTime
              /\ totalSearchesPerformed = issuedSearches - failedSearches
        /\ StageOf(opc') >= 5 =>
              /\ totalVectorsInserted' = okVectors'
              /\ insertsPerSec' = Throughput(totalVectorsInserted', insertionTime')
        /\ StageOf(opc') >= 9 =>
              /\ totalSearchesPerformed' = issuedSearches' - failedSearches'
              /\ searchesPerSec' = Throughput(totalSearchesPerformed', searchTime')
        /\ StageOf(opc) >= 5 =>
              UNCHANGED <<totalVectorsInserted, insertionTime, insertsPerSec>>
        /\ StageOf(opc) >= 9 =>
              UNCHANGED <<totalSearchesPerformed, searchTime, searchesPerSec>>
      ]_vars

C23_Witness ==
    /\ opc = "Report" /\ exit = 0
    /\ failedInserts > 0 /\ failedSearches > 0
    /\ totalVectorsInserted > 0 /\ insertionTime > duration
    /\ totalSearchesPerformed > 0 /\ searchTime > 0

\* The step that prints the final summary table (lines 381-417).
PrintsSummary == opc = "Report" /\ exit = -1 /\ exit' = 0

\* The step that drops the collection at the end of the run (lines 372-379).
DropsAtEnd == opc = "Cleanup" /\ collection /\ ~collection'

\* C26: the final summary is printed before the collection is dropped: the
\* summary is printed while the collection is still there, and the
\* collection is dropped by a run that has printed its summary.
C26_SummaryBeforeDrop ==
    [][ /\ PrintsSummary => collection
        /\ DropsAtEnd => exit = 0
      ]_vars

\* C27: CreateCollection is called after the existence check, and after
\* the drop exactly when the check found the collection: the orchestrator
\* goes from the check to the drop when the collection exists and straight
\* to CreateCollection when it does not, from the drop to CreateCollection
\* when the drop succeeded, and by no other way; so the collection does not
\* exist when CreateCollection is called.  A check or a drop that fails
\* ends the run with status 1 where it is.
C27_CleanBeforeCreate ==
    [][ /\ (opc = "HasCollection" /\ opc' # opc) =>
              /\ opc' = (IF collection THEN "DropExisting" ELSE "CreateCollection")
              /\ collection' = collection
        /\ (opc = "DropExisting" /\ opc' # opc) =>
              /\ opc' = "CreateCollection"
              /\ collection /\ ~collection'
        /\ (opc' = "DropExisting" /\ opc' # opc) => opc = "HasCollection"
        /\ (opc' = "CreateCollection" /\ opc' # opc) =>
              opc \in {"HasCollection", "DropExisting"}
        /\ opc' = "CreateCollection" => ~collection'
        /\ (failedCall' \in {"HasCollection", "DropExisting"} /\ failedCall = "") =>
              /\ exit' = 1
              /\ opc' = failedCall' /\ opc' = opc
        /\ (exit = 1 /\ failedCall \in {"HasCollection", "DropExisting"}) =>
              UNCHANGED <<opc, collection>>
      ]_vars

\* The check found the collection, the drop failed and the run has ended
\* there: the collection is still the old one.
C27_Witness ==
    /\ exit = 1 /\ failedCall = "DropExisting" /\ opc = "DropExisting"
    /\ collection

\* C28: the collection the run created is dropped at the end and only
\* there: it exists from CreateCollection to the clean-up, a run that has
\* got to the final report has dropped it, and a run that a fatal error
\* ended after CreateCollection succeeded has left it in place (a run with
\* --help creates none).
C28_DroppedAtEndOnly ==
    /\ (StageOf(opc) >= 4 /\ StageOf(opc) <= 9) => collection
    /\ opc = "Report" => ~collection
    /\ (exit = 1 /\ StageOf(opc) >= 4) => collection
    /\ (exit = 0 /\ ~showHelp) => ~collection

\* LoadCollection has failed after vectors were inserted and indexed: the
\* run is over and the collection is there.
C28_Witness ==
    /\ exit = 1 /\ failedCall = "LoadCollection"
    /\ totalVectorsInserted > 0
    /\ collection

\* Worker w is about to read the shared insert total for a snapshot
\* (lines 270-272).
ReadsTotal(w) == ipc[w] = "rt" /\ realTime /\ batchCount[w] % 10 = 0

\* Worker w is about to write the shared insert total (line 266).
WritesTotal(w) == ipc[w] = "crit"

\* C30: no worker reads the shared insert total while another worker can
\* write it: a worker that is about to read the total for its snapshot
\* holds the mutex, so that no other worker is inside the critical section.
C30_NoRacingRead ==
    \A w \in Workers :
        ReadsTotal(w) =>
            /\ mu = w
            /\ \A v \in Workers \ {w} : ~WritesTotal(v)

\* C33: in a run without --help, with a duration of zero or less both
\* deadlines have passed when the workers start: no worker enters its loop, no insert and no search is
\* issued and both totals stay 0; the run does not stop for that: as long
\* as it has not exited a next step is possible, and it exits with status
\* 0 only after the report, every worker of both pools having been started
\* and having returned.
C33_NothingToDo ==
    (duration <= 0 /\ ~showHelp) =>
        /\ issuedInserts = 0 /\ issuedSearches = 0
        /\ totalVectorsInserted = 0 /\ totalSearchesPerformed = 0
        /\ \A w \in Workers : /\ ipc[w] \in {"idle", "check", "done"}
                              /\ spc[w] \in {"idle", "check", "done"}
        /\ exit = -1 => ENABLED Next
        /\ exit = 0 =>
              /\ opc = "Report"
              /\ spawned = PoolSize /\ searchSpawned = PoolSize
              /\ \A w \in Workers : ipc[w] = "done" /\ spc[w] = "done"

\* A run with a negative duration has gone through every stage and has
\* printed its report.
C33_Witness ==
    /\ duration < 0
    /\ exit = 0 /\ opc = "Report"
    /\ searchEndTime < searchStartTime
    /\ spawned = PoolSize /\ searchSpawned = PoolSize
    /\ totalVectorsInserted = 0 /\ totalSearchesPerformed = 0

\* C34: a session that Connect has opened is closed when the process has
\* ended, whether main has returned or a fatal error has ended the run.
C34_SessionClosedAtExit ==
    (exit # -1 /\ session # "none") => session = "closed"

\* C36: the search phase works on the search total alone, whatever the
\* ramp-up and real-time flags are.  From the end of the insertion phase
\* on, no step changes the insert total, the state of the insert workers
\* (their batch sizes and snapshots included) or the measurements of the
\* insertion phase; the search total changes only by 1, added by a worker
\* whose search succeeded; and a search that fails changes neither total.
C36_SearchPhaseFrame ==
    [][ /\ StageOf(opc) >= 5 =>
              UNCHANGED <<totalVectorsInserted, insertVars, insertionTime,
                          insertsPerSec, rampVars, rampUp, realTime>>
        /\ totalSearchesPerformed' # totalSearchesPerformed =>
              /\ opc = "SearchPhase"
              /\ totalSearchesPerformed' = totalSearchesPerformed + 1
              /\ \E w \in Workers : spc[w] = "crit" /\ spc'[w] = "check"
              /\ failedSearches' = failedSearches
        /\ \A w \in Workers :
              (spc[w] = "crit" /\ spc'[w] = "check") =>
                  totalSearchesPerformed' = totalSearchesPerformed + 1
        /\ \A w \in Workers : SearchFails(w) => UNCHANGED totalVars
        /\ opc' = "Report" => totalVectorsInserted' = okVectors'
      ]_vars

\* A run with ramp-up has finished its search phase: one search succeeded,
\* one failed, and the insert total is what the insertion phase left.
C36_Witness ==
    /\ opc = "Report" /\ rampUp
    /\ totalSearchesPerformed = 1 /\ failedSearches = 1
    /\ totalVectorsInserted > 0 /\ totalVectorsInserted = okVectors

(***************************************************************************)
(* The two worker pools at their full size.  The orchestrator is the one   *)
(* of Next; the goroutines of a pool are counted instead of followed one   *)
(* by one: spawned and searchSpawned are the loop indices of the two spawn *)
(* loops, wg and searchWg the goroutines that have not returned.  One      *)
(* iteration of a worker is one step; with ramp-up on it calls             *)
(* calculateDynamicLoad, whose arguments and result are kept in rampArgs   *)
(* and rampOut.                                                            *)
(***************************************************************************)
PoolPressures == {low, medium, high, extreme, turbo}

PoolInit ==
    /\ showHelp = FALSE
    /\ \E given \in BOOLEAN, value \in PoolPressures :
           pressure = FlagString(given, value, medium)
    /\ rampUp \in BOOLEAN
    /\ realTime = FALSE
    /\ duration \in Durations
    /\ collection = TRUE
    /\ NothingStarted

\* One turn of the loop of line 231: wg.Add(1); go func ...
PoolSpawnInsert ==
    /\ Running /\ opc = "InsertPhase"
    /\ spawned < numConcurrentGoroutines
    /\ wg' = wg + 1
    /\ spawned' = spawned + 1
    /\ UNCHANGED <<cfgVars, opc, exit, collection, session, now, timeVars, totalVars,
                   metricVars, mu, ipc, currentBatchSize, batchCount,
                   lastThroughput, searchVars, ghostVars, rampVars>>

\* PoolInsertIteration with the pool resized to the worker count of the
\* ramp: a worker that finds more workers running than
\* calculateDynamicLoad asks for returns.
PoolInsertIteration_Resizing ==
    /\ Running /\ opc = "InsertPhase"
    /\ wg > 0 /\ now < testEndTime
    /\ issuedInserts < MaxOps
    /\ issuedInserts' = issuedInserts + 1
    /\ IF rampUp
       THEN /\ rampArgs' = <<now - insertionStartTime, duration,
                             numConcurrentGoroutines, batchSize>>
            /\ rampOut' = LoadTable[rampArgs']
            /\ rampPrev' = rampOut
            /\ wg' = IF wg > rampOut'[1] THEN wg - 1 ELSE wg
       ELSE UNCHANGED <<rampVars, wg>>
    /\ UNCHANGED <<cfgVars, opc, exit, collection, session, now, timeVars, totalVars,
                   metricVars, mu, spawned, ipc, currentBatchSize, batchCount,
                   lastThroughput, searchVars, failedInserts,
                   okVectors, completedInserts, issuedSearches,
                   failedSearches, failedCall>>

\* A running insert worker goes through one iteration (lines 241-280).
PoolInsertIteration ==
    /\ Running /\ opc = "InsertPhase"
    /\ wg > 0 /\ now < testEndTime
    /\ issuedInserts < MaxOps
    /\ issuedInserts' = issuedInserts + 1
    /\ IF rampUp
       THEN /\ rampArgs' = <<now - insertionStartTime, duration,
                             numConcurrentGoroutines, batchSize>>
            /\ rampOut' = LoadTable[rampArgs']
            /\ rampPrev' = rampOut
       ELSE UNCHANGED rampVars
    /\ UNCHANGED <<cfgVars, opc, exit, collection, session, now, timeVars, totalVars,
                   metricVars, insertVars, searchVars, failedInserts,
                   okVectors, completedInserts, issuedSearches,
                   failedSearches, failedCall>>

\* A running insert worker finds the deadline passed and returns
\* (lines 241, 282, 234).
PoolInsertReturn ==
    /\ Running /\ opc = "InsertPhase"
    /\ wg > 0 /\ ~(now < testEndTime)
    /\ wg' = wg - 1
    /\ UNCHANGED <<cfgVars, opc, exit, collection, session, now, timeVars, totalVars,
                   metricVars, mu, spawned, ipc, currentBatchSize, batchCount,
                   lastThroughput, searchVars, ghostVars, rampVars>>

\* The spawn loop is over and wg.Wait() returns (lines 231, 286-288).
PoolInsertJoin ==
    /\ Running /\ opc = "InsertPhase"
    /\ ~(spawned < numConcurrentGoroutines)
    /\ wg = 0
    /\ MeasureInsertion

\* One turn of the loop of line 332.
PoolSpawnSearch ==
    /\ Running /\ opc = "SearchPhase"
    /\ searchSpawned < numConcurrentGoroutines
    /\ searchWg' = searchWg + 1
    /\ searchSpawned' = searchSpawned + 1
    /\ UNCHANGED <<cfgVars, opc, exit, collection, session, now, timeVars, totalVars,
                   metricVars, insertVars, searchMu, spc, searchCount,
                   ghostVars, rampVars>>

\* A running search worker goes through one iteration (lines 340-360).
PoolSearchIteration ==
    /\ Running /\ opc = "SearchPhase"
    /\ searchWg > 0 /\ now < searchEndTime
    /\ issuedSearches < MaxOps
    /\ issuedSearches' = issuedSearches + 1
    /\ UNCHANGED <<cfgVars, opc, exit, collection, session, now, timeVars, totalVars,
                   metricVars, insertVars, searchVars, rampVars,
                   issuedInserts, failedInserts, okVectors, completedInserts,
                   failedSearches, failedCall>>

\* A running search worker finds the deadline passed and returns
\* (lines 340, 361, 335).
PoolSearchReturn ==
    /\ Running /\ opc = "SearchPhase"
    /\ searchWg > 0 /\ ~(now < searchEndTime)
    /\ searchWg' = searchWg - 1
    /\ UNCHANGED <<cfgVars, opc, exit, collection, session, now, timeVars, totalVars,
                   metricVars, insertVars, searchMu, searchSpawned, spc,
                   searchCount, ghostVars, rampVars>>

\* The spawn loop is over and searchWg.Wait() returns (lines 332, 364-366).
PoolSearchJoin ==
    /\ Running /\ opc = "SearchPhase"
    /\ ~(searchSpawned < numConcurrentGoroutines)
    /\ searchWg = 0
    /\ MeasureSearch

PoolNext ==
    \/ ResolveProfile
    \/ Connect
    \/ HasCollection
    \/ DropExisting
    \/ CreateCollection
    \/ PoolSpawnInsert
    \/ PoolInsertIteration
    \/ PoolInsertReturn
    \/ PoolInsertJoin
    \/ Flush
    \/ CreateIndex
    \/ LoadCollection
    \/ PoolSpawnSearch
    \/ PoolSearchIteration
    \/ PoolSearchReturn
    \/ PoolSearchJoin
    \/ Cleanup
    \/ Report
    \/ Tick

SpecPool == PoolInit /\ [][PoolNext]_vars

\* C24: the pool of a phase has the size of the profile.  The spawn loop
\* starts one worker at a time up to the profile's worker count and not
\* beyond; a worker leaves the pool only by returning at the deadline;
\* when a phase has been joined, exactly the profile's worker count of
\* workers have been started for it; and the worker count that
\* calculateDynamicLoad returns under ramp-up, whatever it is, changes
\* nothing of this.
C24_FixedPool ==
    [][ /\ spawned' <= numConcurrentGoroutines' /\ wg' <= spawned'
        /\ searchSpawned' <= numConcurrentGoroutines' /\ searchWg' <= searchSpawned'
        /\ spawned' # spawned =>
              /\ opc = "InsertPhase" /\ spawned' = spawned + 1 /\ wg' = wg + 1
        /\ searchSpawned' # searchSpawned =>
              /\ opc = "SearchPhase" /\ searchSpawned' = searchSpawned + 1
              /\ searchWg' = searchWg + 1
        /\ wg' < wg => (wg' = wg - 1 /\ ~(now < testEndTime))
        /\ searchWg' < searchWg => (searchWg' = searchWg - 1 /\ ~(now < searchEndTime))
        /\ StageOf(opc') >= 5 =>
              /\ spawned' = PressureProfile(pressure).workers
              /\ wg' = 0
        /\ StageOf(opc') >= 9 =>
              /\ searchSpawned' = PressureProfile(pressure).workers
              /\ searchWg' = 0
        /\ rampOut' # rampOut =>
              UNCHANGED <<spawned, wg, numConcurrentGoroutines>>
      ]_vars

\* Ramp-up has told a worker of the extreme profile that 10 workers are
\* the load of the moment, and 100 have been started and have run.
C24_Witness ==
    /\ opc = "Report" /\ exit = 0
    /\ rampUp /\ rampOut # NoRamp /\ rampOut[1] < numConcurrentGoroutines
    /\ spawned = 100 /\ searchSpawned = 100

(***************************************************************************)
(* Runs in which every call returns: the fairness of the runs with a hung  *)
(* worker, and in addition every Insert and Search call of every worker    *)
(* returns.  The calls of the main goroutine return as well: they are      *)
(* steps of Orchestrator.                                                  *)
(***************************************************************************)
ReturningInit ==
    /\ showHelp \in BOOLEAN
    /\ pressure = low
    /\ rampUp = FALSE
    /\ realTime = FALSE
    /\ duration \in Durations
    /\ collection = TRUE
    /\ NothingStarted

ReturningFairness ==
    /\ WF_vars(Orchestrator)
    /\ WF_vars(Tick)
    /\ \A w \in Workers : WF_vars(WorkerStep(w))
    /\ \A w \in Workers : WF_vars(CallReturns(w))

SpecReturning == ReturningInit /\ [][Next]_vars /\ ReturningFairness

\* C25: when every call returns, the run ends: the process exits, with
\* status 0 after the final report (or, with --help, after the help) or
\* with status 1 at a call that failed;
\* when it has exited no worker is left in its loop, and a worker that has
\* returned has done so at or after its deadline.
C25_RunEnds ==
    /\ <>(exit = 1 \/ (exit = 0 /\ opc \in {"Report", "Help"}))
    /\ [](exit # -1 => \A w \in Workers : /\ ipc[w] \in {"idle", "done"}
                                          /\ spc[w] \in {"idle", "done"})
    /\ [](\A w \in Workers : ipc[w] = "done" => ~(now < testEndTime))
    /\ [](\A w \in Workers : spc[w] = "done" => ~(now < searchEndTime))

C25_Witness ==
    /\ exit = 0 /\ opc = "Report"
    /\ duration > 0
    /\ issuedInserts = MaxOps /\ issuedSearches > 0
    /\ \A w \in Workers : ipc[w] = "done" /\ spc[w] = "done"

(***************************************************************************)
(* The fixed-batch variant of the program (unnamed/part_001; part_002 is   *)
(* the same with the summary table): four traffic flags instead of         *)
(* --pressure, and workers that send numBatchesPerGoroutine batches each   *)
(* instead of running to a deadline.  batchCount[w] is the loop index j of *)
(* worker w.  The run is followed to the end of its insertion phase.       *)
(***************************************************************************)

\* TrafficSettings with the batches per worker of the NORMAL settings
\* pasted into the VERY HIGH ones.
TrafficSettings_Pasted(tn, tm, th, tv) ==
    IF tm THEN [trafficLevel |-> "MEDIUM", workers |-> 20, batch |-> 2000, batches |-> 20]
    ELSE IF th THEN [trafficLevel |-> "HIGH", workers |-> 50, batch |-> 5000, batches |-> 20]
    ELSE IF tv THEN [trafficLevel |-> "VERY HIGH", workers |-> 100, batch |-> 10000, batches |-> 10]
    ELSE [trafficLevel |-> IF tn THEN "NORMAL" ELSE "NORMAL (default)",
          workers |-> 10, batch |-> 1000, batches |-> 10]

\* The traffic settings (part_001 lines 37-62) for the values tn, tm, th and
\* tv of --test, --test-medium, --test-high and --test-very-high.
TrafficSettings(tn, tm, th, tv) ==
    IF tm THEN [trafficLevel |-> "MEDIUM", workers |-> 20, batch |-> 2000, batches |-> 20]
    ELSE IF th THEN [trafficLevel |-> "HIGH", workers |-> 50, batch |-> 5000, batches |-> 20]
    ELSE IF tv THEN [trafficLevel |-> "VERY HIGH", workers |-> 100, batch |-> 10000, batches |-> 20]
    ELSE [trafficLevel |-> IF tn THEN "NORMAL" ELSE "NORMAL (default)",
          workers |-> 10, batch |-> 1000, batches |-> 10]

FixedInit ==
    /\ showHelp = FALSE
    /\ testNormal \in BOOLEAN /\ testMedium \in BOOLEAN
    /\ testHigh \in BOOLEAN /\ testVeryHigh \in BOOLEAN
    /\ trafficLevel = "" /\ numBatchesPerGoroutine = 0 /\ totalInserts = 0
    /\ pressure = << >> /\ rampUp = FALSE /\ realTime = FALSE /\ duration = 0
    /\ collection = FALSE
    /\ MainIdle

\* The settings are chosen and totalInserts computed (part_001 lines 33-65).
FixedResolve ==
    /\ Running /\ opc = "Profile"
    /\ LET t == TrafficSettings(testNormal, testMedium, testHigh, testVeryHigh)
       IN  /\ trafficLevel' = t.trafficLevel
           /\ numConcurrentGoroutines' = t.workers
           /\ batchSize' = t.batch
           /\ numBatchesPerGoroutine' = t.batches
           /\ totalInserts' = t.workers * t.batches * t.batch
    /\ opc' = "Connect"
    /\ UNCHANGED <<testNormal, testMedium, testHigh, testVeryHigh, showHelp,
                   pressure, pressureLevel, rampUp, realTime, duration,
                   exit, collection, session, now, timeVars, totalVars, metricVars,
                   insertVars, searchVars, ghostVars, rampVars>>

\* Steps 1 to 3: connect, drop the collection of an earlier run, create the
\* collection, and the start of step 4 (part_001 lines 78-123); a call that
\* fails ends the run.
FixedSetUp ==
    /\ Running /\ opc = "Connect"
    /\ \/ /\ opc' = "InsertPhase"
          /\ collection' = TRUE
          /\ insertionStartTime' = now
          /\ session' = "open"
          /\ UNCHANGED <<cfgVars, exit, now, testEndTime, searchStartTime,
                         searchEndTime, totalVars, metricVars, insertVars,
                         searchVars, ghostVars, rampVars>>
       \/ Fatal

\* One turn of the spawn loop (part_001 lines 125-130).
FixedSpawn ==
    /\ Running /\ opc = "InsertPhase"
    /\ spawned < PoolSize
    /\ wg' = wg + 1
    /\ spawned' = spawned + 1
    /\ ipc' = [ipc EXCEPT ![spawned + 1] = "check"]
    /\ batchCount' = [batchCount EXCEPT ![spawned + 1] = 0]
    /\ UNCHANGED <<cfgVars, opc, exit, collection, session, now, timeVars, totalVars,
                   metricVars, mu, currentBatchSize, lastThroughput,
                   searchVars, ghostVars, rampVars>>

\* Loop top of a worker (part_001 line 132): it builds and sends batch j
\* (lines 133-142), or has sent them all and returns (lines 148-149, 128).
FixedLoopTop(w) ==
    /\ Running /\ ipc[w] = "check"
    /\ \/ /\ batchCount[w] < numBatchesPerGoroutine
          /\ ipc' = [ipc EXCEPT ![w] = "call"]
          /\ issuedInserts' = issuedInserts + 1
          /\ UNCHANGED wg
       \/ /\ ~(batchCount[w] < numBatchesPerGoroutine)
          /\ ipc' = [ipc EXCEPT ![w] = "done"]
          /\ wg' = wg - 1
          /\ UNCHANGED issuedInserts
    /\ UNCHANGED <<cfgVars, opc, exit, collection, session, now, timeVars, totalVars,
                   metricVars, mu, spawned, currentBatchSize, batchCount,
                   lastThroughput, searchVars, rampVars, failedInserts,
                   okVectors, completedInserts, issuedSearches,
                   failedSearches, failedCall>>

\* FixedInsertReturn with continue for the return of line 145: the worker
\* goes on to its next batch after a failed one.
FixedInsertReturn_Continue(w) ==
    /\ Running /\ ipc[w] = "call"
    /\ \/ /\ ipc' = [ipc EXCEPT ![w] = "check"]
          /\ batchCount' = [batchCount EXCEPT ![w] = batchCount[w] + 1]
          /\ failedInserts' = failedInserts + 1
          /\ UNCHANGED <<okVectors, wg>>
       \/ /\ ipc' = [ipc EXCEPT ![w] = "check"]
          /\ batchCount' = [batchCount EXCEPT ![w] = batchCount[w] + 1]
          /\ okVectors' = okVectors + batchSize
          /\ UNCHANGED <<failedInserts, wg>>
    /\ UNCHANGED <<cfgVars, opc, exit, collection, session, now, timeVars, totalVars,
                   metricVars, mu, spawned, currentBatchSize, lastThroughput,
                   searchVars, rampVars, issuedInserts, completedInserts,
                   issuedSearches, failedSearches, failedCall>>

\* Insert returns (part_001 lines 142-146): an error is logged and the
\* worker returns; otherwise j++.
FixedInsertReturn(w) ==
    /\ Running /\ ipc[w] = "call"
    /\ \/ /\ ipc' = [ipc EXCEPT ![w] = "done"]
          /\ wg' = wg - 1
          /\ failedInserts' = failedInserts + 1
          /\ UNCHANGED <<okVectors, batchCount>>
       \/ /\ ipc' = [ipc EXCEPT ![w] = "check"]
          /\ batchCount' = [batchCount EXCEPT ![w] = batchCount[w] + 1]
          /\ okVectors' = okVectors + batchSize
          /\ UNCHANGED <<failedInserts, wg>>
    /\ UNCHANGED <<cfgVars, opc, exit, collection, session, now, timeVars, totalVars,
                   metricVars, mu, spawned, currentBatchSize, lastThroughput,
                   searchVars, rampVars, issuedInserts, completedInserts,
                   issuedSearches, failedSearches, failedCall>>

\* wg.Wait() returns and the phase is measured (part_001 lines 152-154).
FixedJoin ==
    /\ Running /\ opc = "InsertPhase"
    /\ ~(spawned < PoolSize)
    /\ wg = 0
    /\ opc' = "Flush"
    /\ insertionTime' = now - insertionStartTime
    /\ insertsPerSec' = Throughput(totalInserts, now - insertionStartTime)
    /\ UNCHANGED <<cfgVars, exit, collection, session, now, timeVars, totalVars,
                   searchTime, searchesPerSec, insertVars, searchVars,
                   ghostVars, rampVars>>

FixedNext ==
    \/ FixedResolve
    \/ FixedSetUp
    \/ FixedSpawn
    \/ \E w \in Workers : FixedLoopTop(w)
    \/ \E w \in Workers : FixedInsertReturn(w)
    \/ FixedJoin

SpecFixed == FixedInit /\ [][FixedNext]_vars

\* The settings in force: workers, batches per worker, batch size.
FixedSettings == <<numConcurrentGoroutines, numBatchesPerGoroutine, batchSize>>

\* C29: in the fixed-batch variant, once the settings are chosen, a run
\* with --test-medium alone has (20, 20, 2000) and the label MEDIUM, with
\* --test-high alone (50, 20, 5000) and HIGH, with --test-very-high alone
\* (100, 20, 10000) and VERY HIGH, with --test alone (10, 10, 1000) and
\* NORMAL, and with no traffic flag (10, 10, 1000) and NORMAL (default);
\* and the settings stay as chosen.
C29_TrafficSettings ==
    [][ /\ opc' # "Profile" =>
              /\ (testMedium' /\ ~testNormal' /\ ~testHigh' /\ ~testVeryHigh') =>
                    (FixedSettings' = <<20, 20, 2000>> /\ trafficLevel' = "MEDIUM")
              /\ (testHigh' /\ ~testNormal' /\ ~testMedium' /\ ~testVeryHigh') =>
                    (FixedSettings' = <<50, 20, 5000>> /\ trafficLevel' = "HIGH")
              /\ (testVeryHigh' /\ ~testNormal' /\ ~testMedium' /\ ~testHigh') =>
                    (FixedSettings' = <<100, 20, 10000>> /\ trafficLevel' = "VERY HIGH")
              /\ (testNormal' /\ ~testMedium' /\ ~testHigh' /\ ~testVeryHigh') =>
                    (FixedSettings' = <<10, 10, 1000>> /\ trafficLevel' = "NORMAL")
              /\ (~testNormal' /\ ~testMedium' /\ ~testHigh' /\ ~testVeryHigh') =>
                    (FixedSettings' = <<10, 10, 1000>>
                     /\ trafficLevel' = "NORMAL (default)")
        /\ opc # "Profile" => UNCHANGED <<FixedSettings, trafficLevel>>
      ]_vars

\* A run with --test-very-high alone has sent batches with its settings.
C29_Witness ==
    /\ testVeryHigh /\ ~testNormal /\ ~testMedium /\ ~testHigh
    /\ FixedSettings = <<100, 20, 10000>>
    /\ opc = "Flush" /\ okVectors = NumWorkers * 20 * 10000

\* The number the variant prints as Total Vectors Inserted
\* (part_001 lines 224, 229).
ReportedVectors == totalInserts

\* The vectors whose insert succeeded: those of the workers the model
\* follows, and all the batches of the other workers of the pool, none of
\* whose inserts fails.
SucceededVectors ==
    okVectors
    + (numConcurrentGoroutines - PoolSize) * numBatchesPerGoroutine * batchSize

\* C31: in the fixed-batch variant, when the insertion phase is over, the
\* number reported as Total Vectors Inserted is the number of vectors whose
\* insert succeeded, also when inserts have failed.
C31_ReportedIsInserted ==
    opc = "Flush" => ReportedVectors = SucceededVectors

\* The Insert of worker w of the variant returns an error.
FixedFails(w) ==
    /\ ipc[w] = "call" /\ ipc'[w] # "call"
    /\ failedInserts' = failedInserts + 1

\* C32: in the fixed-batch variant a worker whose insert fails returns in
\* that step and issues nothing afterwards; the step changes nothing of
\* the other workers; a worker returns only so or when it has sent all its
\* numBatchesPerGoroutine batches; and the run goes on to Flush when every
\* worker has returned, failed inserts or not.
C32_FailedWorkerStops ==
    [][ /\ \A w \in Workers :
              /\ FixedFails(w) =>
                    /\ ipc'[w] = "done"
                    /\ wg' = wg - 1
                    /\ \A v \in Workers \ {w} :
                          ipc'[v] = ipc[v] /\ batchCount'[v] = batchCount[v]
                    /\ opc' = opc /\ exit' = exit
              /\ ipc[w] = "done" =>
                    /\ ipc'[w] = "done"
                    /\ batchCount'[w] = batchCount[w]
              /\ (ipc'[w] = "done" /\ ipc[w] # "done") =>
                    \/ FixedFails(w)
                    \/ ipc[w] = "check" /\ batchCount[w] = numBatchesPerGoroutine
              /\ (ipc'[w] = "call" /\ ipc[w] # "call") =>
                    /\ issuedInserts' = issuedInserts + 1
                    /\ batchCount[w] < numBatchesPerGoroutine
        /\ issuedInserts' # issuedInserts =>
              \E w \in Workers : ipc[w] = "check" /\ ipc'[w] = "call"
        /\ failedInserts' =
              Cardinality({w \in Workers :
                              /\ ipc'[w] = "done"
                              /\ batchCount'[w] < numBatchesPerGoroutine'})
        /\ (opc' = "Flush" /\ opc = "InsertPhase") =>
              /\ spawned = PoolSize
              /\ \A w \in Workers : ipc[w] = "done"
              /\ exit' = -1
      ]_vars

\* Worker 1 has stopped at its fourth batch, worker 2 has sent all of its
\* batches, and the run is at Flush.
C32_Witness ==
    /\ opc = "Flush" /\ exit = -1
    /\ failedInserts = 1
    /\ ipc[1] = "done" /\ batchCount[1] = 3
    /\ ipc[2] = "done" /\ batchCount[2] = numBatchesPerGoroutine
    /\ numBatchesPerGoroutine = 20

(***************************************************************************)
(* Claims about ramp-up in the runs of the four profiles.                  *)
(***************************************************************************)

\* C35: with ramp-up on, under each of the four profiles, the batch size
\* calculateDynamicLoad gives a worker for the insert it is about to send
\* is at least a tenth of the profile's batch size and at most the
\* profile's batch size; so it is positive.
C35_RampedBatchInRange ==
    (rampUp /\ rampArgs # <<0, 0, 0, 0>>) =>
        /\ pressureLevel \in {"LOW", "MEDIUM", "HIGH", "EXTREME", "MEDIUM (default)"}
        /\ batchSize = PressureProfile(pressure).batch
        /\ rampArgs[4] = batchSize
        /\ rampOut[2] * 10 >= batchSize
        /\ rampOut[2] <= batchSize
        /\ rampOut[2] > 0

\* Part of the way up the ramp of the extreme profile.
C35_Witness ==
    /\ rampUp /\ pressure = extreme
    /\ rampArgs[1] > 0 /\ rampArgs[1] < duration
    /\ rampOut[2] > 1000 /\ rampOut[2] < 10000
    /\ issuedInserts = MaxOps

(***************************************************************************)
(* The cadence of the real-time snapshots: the insertion phase of a low    *)
(* pressure run without ramp-up, taken either at its start (line 227) or   *)
(* at a moment of the same run when every worker is back at the top of     *)
(* its loop with SnapshotEvery - 1 batches inserted, none failed, all      *)
(* within the first tick of the clock.                                     *)
(***************************************************************************)
\* batchCount%10 (line 270).
SnapshotEvery == 10

\* The batches each worker has inserted when the observation starts.
CadenceStarts == {0, SnapshotEvery - 1}

CadenceInit ==
    /\ VariantIdle
    /\ showHelp = FALSE
    /\ pressure = low
    /\ pressureLevel = PressureProfile(low).pressureLevel
    /\ numConcurrentGoroutines = PressureProfile(low).workers
    /\ batchSize = PressureProfile(low).batch
    /\ rampUp = FALSE
    /\ realTime \in BOOLEAN
    /\ duration = MaxDuration
    /\ opc = "InsertPhase" /\ exit = -1 /\ collection = TRUE
    /\ session = "open"
    /\ now = 0
    /\ insertionStartTime = 0 /\ testEndTime = MaxDuration
    /\ searchStartTime = 0 /\ searchEndTime = 0
    /\ totalSearchesPerformed = 0
    /\ insertionTime = 0 /\ insertsPerSec = ZeroThroughput
    /\ searchTime = 0 /\ searchesPerSec = ZeroThroughput
    /\ mu = 0
    /\ currentBatchSize = [w \in Workers |-> 0]
    /\ searchWg = 0 /\ searchMu = 0 /\ searchSpawned = 0
    /\ spc = [w \in Workers |-> "idle"]
    /\ searchCount = [w \in Workers |-> 0]
    /\ failedInserts = 0 /\ completedInserts = 0
    /\ issuedSearches = 0 /\ failedSearches = 0
    /\ failedCall = ""
    /\ rampArgs = <<0, 0, 0, 0>> /\ rampPrev = NoRamp /\ rampOut = NoRamp
    /\ \E c \in CadenceStarts :
          /\ batchCount = [w \in Workers |-> c]
          /\ issuedInserts = c * NumWorkers
          /\ okVectors = c * NumWorkers * PressureProfile(low).batch
          /\ totalVectorsInserted = c * NumWorkers * PressureProfile(low).batch
          /\ IF c = 0
             THEN /\ wg = 0 /\ spawned = 0
                  /\ ipc = [w \in Workers |-> "idle"]
                  /\ lastThroughput = [w \in Workers |-> ZeroThroughput]
             ELSE /\ wg = NumWorkers /\ spawned = NumWorkers
                  /\ ipc = [w \in Workers |-> "check"]
                  /\ lastThroughput =
                         [w \in Workers |->
                             IF realTime THEN PosInf ELSE ZeroThroughput]

\* The inserts issued before the observation started.
CadenceIssued ==
    IF issuedInserts >= (SnapshotEvery - 1) * NumWorkers
    THEN (SnapshotEvery - 1) * NumWorkers
    ELSE 0

\* for time.Now().Before(testEndTime) (line 241), the observation cut after
\* MaxOps + 1 batches.
CadenceLoopTop(w) ==
    /\ Running /\ ipc[w] = "check"
    /\ \/ /\ now < testEndTime
          /\ issuedInserts + Cardinality({v \in Workers : ipc[v] = "gen"})
                 < CadenceIssued + MaxOps + 1
          /\ ipc' = [ipc EXCEPT ![w] = "gen"]
          /\ UNCHANGED <<wg, currentBatchSize, batchCount, lastThroughput,
                         completedInserts>>
       \/ /\ ~(now < testEndTime)
          /\ ipc' = [ipc EXCEPT ![w] = "done"]
          /\ wg' = wg - 1
          /\ completedInserts' = completedInserts + batchCount[w]
          /\ currentBatchSize' = [currentBatchSize EXCEPT ![w] = 0]
          /\ batchCount' = [batchCount EXCEPT ![w] = 0]
          /\ lastThroughput' = [lastThroughput EXCEPT ![w] = ZeroThroughput]
    /\ UNCHANGED <<cfgVars, opc, exit, collection, session, now, timeVars,
                   totalVars, metricVars, mu, spawned, searchVars, rampVars,
                   issuedInserts, failedInserts, okVectors,
                   issuedSearches, failedSearches, failedCall>>

CadenceNext ==
    \/ SpawnInsert
    \/ \E w \in Workers : CadenceLoopTop(w)
    \/ \E w \in Workers : InsertCall(w)
    \/ \E w \in Workers : InsertReturn(w)
    \/ \E w \in Workers : InsertLock(w)
    \/ \E w \in Workers : InsertAdd(w)
    \/ \E w \in Workers : InsertCount(w)
    \/ Tick

SpecCadence == CadenceInit /\ [][CadenceNext]_vars

\* Worker w prints a snapshot in this step: the print and the assignment
\* lastThroughput = currentThroughput are one block (lines 274-277).
SnapshotBy(w) == lastThroughput'[w] # lastThroughput[w] /\ ipc'[w] # "done"

\* C38: a worker emits a real-time snapshot only when real-time reporting
\* is on, only directly after one of its own successful inserts (the insert
\* returned without error and its vectors were added to the total), and
\* only when the number of its earlier successful inserts, batchCount, is a
\* multiple of 10; batchCount advances by one per successful insert and by
\* nothing else, and a failed insert emits no snapshot and leaves the count
\* as it was.
C38_SnapshotCadence ==
    [][\A w \in Workers :
          /\ SnapshotBy(w) =>
                 /\ realTime
                 /\ ipc[w] = "rt" /\ ipc'[w] = "check"
                 /\ batchCount[w] % SnapshotEvery = 0
                 /\ batchCount'[w] = batchCount[w] + 1
          /\ (ipc'[w] = "rt" /\ ipc[w] # "rt") =>
                 /\ ipc[w] = "crit"
                 /\ totalVectorsInserted'
                        = totalVectorsInserted + currentBatchSize[w]
          /\ (ipc'[w] = "crit" /\ ipc[w] # "crit") => ipc[w] = "lock"
          /\ (ipc'[w] = "lock" /\ ipc[w] # "lock") =>
                 /\ ipc[w] = "call"
                 /\ failedInserts' = failedInserts
                 /\ okVectors' = okVectors + currentBatchSize[w]
          /\ batchCount'[w] # batchCount[w] =>
                 \/ ipc[w] = "rt" /\ batchCount'[w] = batchCount[w] + 1
                 \/ ipc'[w] = "done" /\ batchCount'[w] = 0
          /\ ipc[w] = "rt" /\ ipc'[w] # "rt" =>
                 batchCount'[w] = batchCount[w] + 1
          /\ InsertFails(w) =>
                 /\ failedInserts' = failedInserts + 1
                 /\ okVectors' = okVectors
                 /\ batchCount'[w] = batchCount[w]
                 /\ lastThroughput'[w] = lastThroughput[w]
      ]_vars

\* A worker has printed the snapshot that follows its eleventh successful
\* insert, after an insert failed.
C38_Witness ==
    /\ realTime /\ failedInserts = 1
    /\ \E w \in Workers :
          /\ batchCount[w] = SnapshotEvery + 1
          /\ ipc[w] = "check"
          /\ lastThroughput[w] \notin {PosInf, ZeroThroughput, NaN}

====
